---- MODULE Spec2Model ----
(***************************************************************************)
(* Model of the content-acquisition and caching core of OnlyFollow's       *)
(* Bilibili adapter (src/src/content/platforms/bilibili.ts) and of the     *)
(* TTL cache it persists to (StorageManager, src/unnamed/part_009).        *)
(*                                                                         *)
(* Time is counted in tenths of a second: the source counts milliseconds,  *)
(* every duration of the source is a multiple of 100 ms, and 30 days in    *)
(* milliseconds do not fit the 32-bit integers of the model checker.       *)
(***************************************************************************)
EXTENDS Integers, Sequences, FiniteSets, TLC

VARIABLES
  now,                  \* Date.now()
  cache,                \* chrome.storage.local: creator -> CacheItem or NoEntry
  currentCachedVideos,  \* BilibiliAdapter.currentCachedVideos
  displayedVideoIds,    \* BilibiliAdapter.displayedVideoIds (a Set, in insertion order)
  rateLimitHitCount,    \* BilibiliAdapter.rateLimitHitCount
  lastRateLimitTime,    \* BilibiliAdapter.lastRateLimitTime
  sched,                \* position of updateUsersSequentially / fetchUserVideosFromNetwork
  refreshButtonHandler, \* BilibiliAdapter.refreshButtonHandler is set
  sel,                  \* inputs and result of the selectVideosSmartly harness
  lastOp                \* record of the handler that ran last (observation only)

vars == <<now, cache, currentCachedVideos, displayedVideoIds,
          rateLimitHitCount, lastRateLimitTime, sched, refreshButtonHandler,
          sel, lastOp>>

----------------------------------------------------------------------------
(* Durations, in tenths of a second *)

Ms(n) == n \div 100

TickStep == Ms(90 * 60 * 1000)

\* CACHE_CONFIG.CONTENT
CONTENT_TTL == Ms(2 * 60 * 60 * 1000)

\* CACHE_CONFIG.FOLLOWED_USERS
FOLLOWED_USERS_TTL == Ms(24 * 60 * 60 * 1000)

\* staleThreshold of cleanupStaleCache, 30 * 24 * 60 * 60 * 1000 ms
staleThreshold == 30 * 24 * 60 * 60 * 10

\* the time at which the model starts
T0 == 40 * 24 * 60 * 60 * 10

\* BilibiliAdapter.requestDelay, the default of the field
requestDelay == Ms(15000)

\* retryDelay of fetchUserVideosFromNetwork
retryDelay == Ms(3000)

\* the window of shouldSkipDueToRateLimit
rateLimitWindow == Ms(10 * 60 * 1000)

maxRetries == 3

videosPerUp == 2

----------------------------------------------------------------------------
(* Bounds *)

MaxTicks == 2

MaxBatch == 2

MaxItemId == 3

NumCreators == 3

\* The selection works on 20 items a call and its history reset keeps 50
\* ids, which is beyond exhaustive search; the four numbers of the
\* selection are scaled down, keeping their order (20 = 20 < 50 < 200).

\* BilibiliAdapter.totalVideosNeeded, 20 in the source
totalVideosNeeded == 2

\* the number of ids a history reset keeps, slice(-50) in the source
historyKeep == 3

\* the history size beyond which a pool running low forces a reset, 200
historyCeiling == 4

\* the pool size below which the history ceiling applies, 20
lowPool == 2

\* longest candidate list and largest count of the selectVideosSmartly runs
MaxCandidates == 4

MaxCount == 3

----------------------------------------------------------------------------
(* Generic helpers *)

Range(s) == {s[i] : i \in 1..Len(s)}

IdsOf(s) == {s[i].id : i \in 1..Len(s)}

SeqsUpTo(S, n) == UNION {[1..k -> S] : k \in 0..n}

Max(a, b) == IF a >= b THEN a ELSE b

----------------------------------------------------------------------------
(* Creators and content items *)

Creators == 1..NumCreators

\* ids of the videos of a creator: an id names one video of one creator
VideoIds(c) == IF c = 1 THEN 1..MaxItemId ELSE {10 + c}

\* v.created * 1000 of a video: a video is published once, so its id fixes
\* the time; some videos are recent and tie, some are 15 days old, some are
\* as old as the staleness window
PubOf(id) ==
  CASE id % 4 = 1 -> T0
    [] id % 4 = 2 -> T0 - staleThreshold
    [] id % 4 = 3 -> T0
    [] OTHER -> T0 - staleThreshold \div 2

Likes == {0, 1}

\* the ContentItem a response entry maps to (fetchUserVideosFromNetwork);
\* likes stands for the fields a re-fetch can change
Item(c, id, likes) ==
  [id |-> id, publishedAt |-> PubOf(id), likes |-> likes, author |-> c]

Items(c) == {Item(c, id, l) : id \in VideoIds(c), l \in Likes}

\* the lists of items one response for creator c can carry, in any order
\* and with any repetition
Batches(c) == SeqsUpTo(Items(c), IF c = 1 THEN MaxBatch ELSE 1)

----------------------------------------------------------------------------
(* JavaScript collections *)

\* Map.prototype.set: an existing key keeps its position and takes the new
\* value, a new key is appended
MapSet(m, v) ==
  IF \E i \in 1..Len(m) : m[i].id = v.id
  THEN [i \in 1..Len(m) |-> IF m[i].id = v.id THEN v ELSE m[i]]
  ELSE Append(m, v)

RECURSIVE MapSetAll(_, _)
MapSetAll(m, s) ==
  IF s = <<>> THEN m ELSE MapSetAll(MapSet(m, Head(s)), Tail(s))

\* Array.prototype.sort((a, b) => b.publishedAt - a.publishedAt): stable
RECURSIVE InsertDesc(_, _)
InsertDesc(sorted, v) ==
  IF sorted = <<>> THEN <<v>>
  ELSE IF Head(sorted).publishedAt >= v.publishedAt
       THEN <<Head(sorted)>> \o InsertDesc(Tail(sorted), v)
       ELSE <<v>> \o sorted

RECURSIVE SortDesc(_)
SortDesc(s) ==
  IF s = <<>> THEN <<>>
  ELSE InsertDesc(SortDesc(SubSeq(s, 1, Len(s) - 1)), s[Len(s)])

\* Set.prototype.add on a Set kept in insertion order
SetAdd(s, id) == IF id \in Range(s) THEN s ELSE Append(s, id)

RECURSIVE SetAddAll(_, _)
SetAddAll(s, ids) ==
  IF ids = <<>> THEN s ELSE SetAddAll(SetAdd(s, Head(ids)), Tail(ids))

----------------------------------------------------------------------------
(* StorageManager: the TTL cache *)

NoEntry == [present |-> FALSE]

CacheItem(data, t, ttl) ==
  [present |-> TRUE, data |-> data, createdAt |-> t, expiresAt |-> t + ttl]

Expired_AtDeadline(entry, t) == entry.present /\ t >= entry.expiresAt

\* Date.now() > cacheItem.expiresAt
Expired(entry, t) == entry.present /\ t > entry.expiresAt

\* StorageManager.getCache when chrome.storage.local.get resolves: the value
\* it returns (hit = FALSE stands for null) ...
GetCache(st, key, t) ==
  IF ~st[key].present \/ Expired(st[key], t)
  THEN [hit |-> FALSE, data |-> <<>>]
  ELSE [hit |-> TRUE, data |-> st[key].data]

\* ... and the storage it leaves behind (an expired entry is removed)
GetCacheStore(st, key, t) ==
  IF Expired(st[key], t) THEN [st EXCEPT ![key] = NoEntry] ELSE st

\* StorageManager.cleanExpiredCache: removes every expired onlyfollow_ entry
CleanExpiredCache(st, t) ==
  [k \in DOMAIN st |-> IF Expired(st[k], t) THEN NoEntry ELSE st[k]]

\* StorageManager.setCache, when chrome.storage.local.set succeeds
SetCache(st, key, data, ttl, t) ==
  CleanExpiredCache([st EXCEPT ![key] = CacheItem(data, t, ttl)], t)

----------------------------------------------------------------------------
(* incrementalUpdateVideoCache and refreshMemoryCache *)

\* steps 2-5 of incrementalUpdateVideoCache: both lists become Maps keyed by
\* id, the new Map is spread over the existing one, the values are sorted
MergeVideos_ExistingWins(existing, newVideos) ==
  SortDesc(MapSetAll(MapSetAll(<<>>, newVideos), MapSetAll(<<>>, existing)))

MergeVideos(existing, newVideos) ==
  SortDesc(MapSetAll(MapSetAll(<<>>, existing), MapSetAll(<<>>, newVideos)))

\* the list incrementalUpdateVideoCache tries to persist; existingCache is
\* the result of getCache
MergedVideos(existingCache, newVideos) ==
  IF existingCache.hit /\ Len(existingCache.data) > 0
  THEN MergeVideos(existingCache.data, newVideos)
  ELSE newVideos

\* refreshMemoryCache(userId, updatedVideos): the new currentCachedVideos
RefreshMemoryCache(mem, shown, userId, updatedVideos) ==
  LET old == SelectSeq(mem, LAMBDA v : v.author = userId)
      oldVideoIds == IdsOf(old)
  IN IF Len(mem) > 0 /\ Len(old) > 0
     THEN SelectSeq(mem, LAMBDA v : v.id \notin oldVideoIds)
          \o SelectSeq(updatedVideos, LAMBDA v : v.id \notin Range(shown))
     ELSE mem

Idle ==
  [op |-> "none", c |-> 0, batch |-> <<>>, pre |-> <<>>, path |-> "none",
   n |-> 0, selected |-> {}, hist |-> {}, reset |-> FALSE]

\* the branch incrementalUpdateVideoCache takes.  setOk tells whether the
\* write of the merged pool succeeds, fallbackOk whether the write in the
\* catch block does (chrome.storage.local.set can reject, setCache rethrows)
MergePath(existingCache, setOk, fallbackOk) ==
  IF setOk
  THEN (IF existingCache.hit /\ Len(existingCache.data) > 0
        THEN "merged" ELSE "first")
  ELSE IF fallbackOk THEN "fallback" ELSE "failed"

\* what chrome.storage.local.set does to the writes of one merge: 1 - the
\* write of the merged pool succeeds; 2 - it rejects and the write of the
\* catch block succeeds; 3 - both reject
StorageOutcomes == {1, 2, 3}

\* incrementalUpdateVideoCache(c, newVideos)
IncrementalUpdateVideoCache_WritesOnFailure(c, newVideos, setOk, fallbackOk) ==
  LET existingCache == GetCache(cache, c, now)
      st1           == GetCacheStore(cache, c, now)
      merged        == MergedVideos(existingCache, newVideos)
  IN /\ cache' = IF setOk THEN SetCache(st1, c, merged, CONTENT_TTL, now)
                 ELSE SetCache(st1, c, newVideos, CONTENT_TTL, now)
     /\ currentCachedVideos' =
          IF setOk
          THEN RefreshMemoryCache(currentCachedVideos, displayedVideoIds,
                                  c, merged)
          ELSE currentCachedVideos

IncrementalUpdateVideoCache(c, newVideos, setOk, fallbackOk) ==
  LET existingCache == GetCache(cache, c, now)
      st1           == GetCacheStore(cache, c, now)
      merged        == MergedVideos(existingCache, newVideos)
  IN /\ cache' = IF setOk THEN SetCache(st1, c, merged, CONTENT_TTL, now)
                 ELSE IF fallbackOk
                      THEN SetCache(st1, c, newVideos, CONTENT_TTL, now)
                      ELSE st1
     /\ currentCachedVideos' =
          IF setOk
          THEN RefreshMemoryCache(currentCachedVideos, displayedVideoIds,
                                  c, merged)
          ELSE currentCachedVideos

----------------------------------------------------------------------------
(* collectAllCachedVideos and cleanupStaleCache *)

\* the creators getFollowedUsers returns, in list order
FollowedUsers == [i \in 1..NumCreators |-> i]

\* the getCache calls of a loop over the followed users remove every
\* expired pool entry
ReadAllStore(st, t) ==
  [k \in DOMAIN st |->
     IF k \in Creators /\ Expired(st[k], t) THEN NoEntry ELSE st[k]]

\* videoMap of collectAllCachedVideos: the first item seen under an id stays
RECURSIVE AddIfAbsent(_, _)
AddIfAbsent(m, s) ==
  IF s = <<>> THEN m
  ELSE AddIfAbsent(IF Head(s).id \in IdsOf(m) THEN m ELSE Append(m, Head(s)),
                   Tail(s))

RECURSIVE CollectMap(_, _, _, _)
CollectMap(m, users, st, t) ==
  IF users = <<>> THEN m
  ELSE CollectMap(AddIfAbsent(m, GetCache(st, Head(users), t).data),
                  Tail(users), st, t)

\* collectAllCachedVideos: the new currentCachedVideos
CollectAllCachedVideos(st, shown, t) ==
  SelectSeq(SortDesc(CollectMap(<<>>, FollowedUsers, st, t)),
            LAMBDA v : v.id \notin Range(shown))

\* freshVideos of cleanupStaleCache
FreshVideos(cached, t) ==
  SelectSeq(cached, LAMBDA v : v.publishedAt > t - staleThreshold)

\* the loop of cleanupStaleCache over the followed users
RECURSIVE CleanupLoop(_, _, _)
CleanupLoop(st, users, t) ==
  IF users = <<>> THEN st
  ELSE LET c      == Head(users)
           cached == GetCache(st, c, t)
           st1    == GetCacheStore(st, c, t)
           fresh  == FreshVideos(cached.data, t)
       IN CleanupLoop(IF cached.hit /\ Len(fresh) < Len(cached.data)
                      THEN SetCache(st1, c, fresh, CONTENT_TTL, t)
                      ELSE st1,
                      Tail(users), t)

\* cleanedCount of cleanupStaleCache
RECURSIVE CleanedCount(_, _, _)
CleanedCount(st, users, t) ==
  IF users = <<>> THEN 0
  ELSE LET cached == GetCache(st, Head(users), t)
       IN (Len(cached.data) - Len(FreshVideos(cached.data, t)))
          + CleanedCount(st, Tail(users), t)

\* collectAllCachedVideos when getFollowedUsers can throw (followOk = FALSE:
\* the login check or the follow-list request fails): the catch block
\* empties the in-memory pool
Collect(st, shown, t, followOk) ==
  IF followOk THEN CollectAllCachedVideos(st, shown, t) ELSE <<>>

\* the storage after the getCache calls of collectAllCachedVideos
CollectStore(st, t, followOk) == IF followOk THEN ReadAllStore(st, t) ELSE st

\* initializeRefreshButton: collectAllCachedVideos, then hijackRefreshButton
\* if the pool is not empty (buttonFound: the roll button is in the page)
InitializeRefreshButton_NoCollect(shown, followOk, buttonFound) ==
  /\ currentCachedVideos' = currentCachedVideos
  /\ cache' = cache
  /\ refreshButtonHandler' =
       (refreshButtonHandler \/ (currentCachedVideos' # <<>> /\ buttonFound))

InitializeRefreshButton(shown, followOk, buttonFound) ==
  /\ currentCachedVideos' = Collect(cache, shown, now, followOk)
  /\ cache' = CollectStore(cache, now, followOk)
  /\ refreshButtonHandler' =
       (refreshButtonHandler \/ (currentCachedVideos' # <<>> /\ buttonFound))

CleanupStaleCache ==
  /\ cache' = CleanupLoop(cache, FollowedUsers, now)
  /\ currentCachedVideos' =
       IF CleanedCount(cache, FollowedUsers, now) > 0
       THEN CollectAllCachedVideos(cache', displayedVideoIds, now)
       ELSE currentCachedVideos
  /\ lastOp' = [Idle EXCEPT !.op = "cleanup"]

----------------------------------------------------------------------------
(* Initial values *)

\* the key of the followings entry of the logged-in user; the pool entry of
\* creator c is kept under key c
FollowingsKey == 0

CacheKeys == {FollowingsKey} \cup Creators

EmptyCache == [k \in CacheKeys |-> NoEntry]

SchedIdle == [pc |-> "idle"]

SelIdle == [pc |-> "idle"]

InitAdapter ==
  /\ now = T0
  /\ cache = EmptyCache
  /\ currentCachedVideos = <<>>
  /\ displayedVideoIds = <<>>
  /\ rateLimitHitCount = 0
  /\ lastRateLimitTime = 0
  /\ refreshButtonHandler = FALSE
  /\ lastOp = Idle

----------------------------------------------------------------------------
(* The merge as a function of the existing pool and the fetched batch:   *)
(* the initial states draw both, the only action merges the batch (twice) *)

\* the pools incrementalUpdateVideoCache can have left for creator 1: none,
\* a first batch, or a batch merged into a first batch
PoolsOfMerges ==
  Batches(1) \cup {MergeVideos(a, b) : a \in Batches(1) \ {<<>>}, b \in Batches(1)}

MergeInit ==
  /\ now = T0
  /\ \E present \in BOOLEAN : \E E \in PoolsOfMerges :
       cache = [EmptyCache EXCEPT ![1] =
                  IF present THEN CacheItem(E, T0, CONTENT_TTL) ELSE NoEntry]
  /\ currentCachedVideos = <<>>
  /\ displayedVideoIds = <<>>
  /\ rateLimitHitCount = 0
  /\ lastRateLimitTime = 0
  /\ refreshButtonHandler = FALSE
  /\ sched = SchedIdle
  /\ sel = SelIdle
  /\ \E newVideos \in Batches(1) :
       lastOp = [Idle EXCEPT !.op = "fetched", !.c = 1, !.batch = newVideos]

\* fetchUserVideosFromNetwork hands the fetched batch to
\* incrementalUpdateVideoCache; a later fetch returning the same batch does
\* so again
MergeFetched ==
  /\ lastOp.op \in {"fetched", "merge"}
  /\ lastOp.n < 2
  /\ \E o \in StorageOutcomes :
     LET setOk == o = 1
         fallbackOk == o = 2
     IN
       /\ IncrementalUpdateVideoCache(lastOp.c, lastOp.batch, setOk, fallbackOk)
       /\ lastOp' = [lastOp EXCEPT
                       !.op = "merge", !.n = lastOp.n + 1,
                       !.pre = GetCache(cache, lastOp.c, now).data,
                       !.path = MergePath(GetCache(cache, lastOp.c, now),
                                          setOk, fallbackOk)]
  /\ UNCHANGED <<now, displayedVideoIds, rateLimitHitCount,
                 lastRateLimitTime, sched, sel,
                 refreshButtonHandler>>

MergeNext == MergeFetched

SpecMerge == MergeInit /\ [][MergeNext]_vars

----------------------------------------------------------------------------
(* Properties of the merge *)

UniqueIds(s) == \A i, j \in 1..Len(s) : s[i].id = s[j].id => i = j

SortedDesc(s) ==
  \A i, j \in 1..Len(s) : i < j => s[i].publishedAt >= s[j].publishedAt

\* the merge ran to completion and persisted a pool
MergeCompleted == lastOp.op = "merge" /\ lastOp.path # "failed"

\* the merge persisted the list it computed (no storage failure)
MergePersisted == lastOp.op = "merge" /\ lastOp.path \in {"merged", "first"}

PoolOf(c) == cache[c].data

\* the last item of list s stored under id
LastWithId(s, id) ==
  s[CHOOSE i \in 1..Len(s) :
      s[i].id = id /\ \A j \in (i + 1)..Len(s) : s[j].id # id]

\* C2: after every completed incrementalUpdateVideoCache the pool persisted
\* for the creator holds no two items with the same id
C2_PoolHasUniqueIds == MergeCompleted => UniqueIds(PoolOf(lastOp.c))

\* C3: after every completed incrementalUpdateVideoCache the pool persisted
\* for the creator is sorted by publishedAt, newest first
C3_PoolSortedDesc == MergeCompleted => SortedDesc(PoolOf(lastOp.c))

\* C4: the pool persisted by a merge of N into E holds exactly the ids of E
\* and of N; an id of N is stored in N's version (the merge branch keeps
\* N's last item under that id), an id of E alone in E's version; so the
\* pool is never shorter than the number of distinct ids of E
C4_MergeIsUnionNewWins ==
  MergePersisted =>
    LET E == lastOp.pre
        N == lastOp.batch
        P == PoolOf(lastOp.c)
    IN /\ IdsOf(P) = IdsOf(E) \cup IdsOf(N)
       /\ \A i \in 1..Len(P) :
            /\ P[i].id \in IdsOf(N) => P[i] \in Range(N)
            /\ (P[i].id \in IdsOf(N) /\ lastOp.path = "merged")
                 => P[i] = LastWithId(N, P[i].id)
            /\ P[i].id \notin IdsOf(N) => P[i] \in Range(E)
       /\ Len(P) >= Cardinality(IdsOf(E))

\* a merge into a non-empty pool met an id of both lists in two versions,
\* an id of E alone and an id of N alone
C4_Witness ==
  /\ MergePersisted
  /\ lastOp.path = "merged"
  /\ \E i \in 1..Len(lastOp.pre) : \E j \in 1..Len(lastOp.batch) :
       lastOp.pre[i].id = lastOp.batch[j].id /\ lastOp.pre[i] # lastOp.batch[j]
  /\ IdsOf(lastOp.pre) \ IdsOf(lastOp.batch) # {}
  /\ IdsOf(lastOp.batch) \ IdsOf(lastOp.pre) # {}

\* C5: merging the same batch a second time leaves the persisted pool, items
\* and order, as the first merge left it
C5_MergeTwiceSameAsOnce ==
  [][(/\ MergePersisted
      /\ MergePersisted'
      /\ lastOp'.c = lastOp.c
      /\ lastOp'.batch = lastOp.batch)
     => PoolOf(lastOp.c)' = PoolOf(lastOp.c)]_vars

----------------------------------------------------------------------------
(* The creator pools in the cache over time: merges, reads, clock, cleanup *)

PoolInit == InitAdapter /\ sched = SchedIdle /\ sel = SelIdle

\* the creators whose pools are written and read here
PoolCreators == {1, 2}

\* the batches of the pool-lifetime specification carry one version per id
PoolBatches(c) == {b \in Batches(c) : \A i \in 1..Len(b) : b[i].likes = 0}

PoolMerge ==
  /\ \E c \in PoolCreators : \E newVideos \in PoolBatches(c) :
       \E o \in StorageOutcomes :
       LET setOk == o = 1
           fallbackOk == o = 2
       IN
         /\ IncrementalUpdateVideoCache(c, newVideos, setOk, fallbackOk)
         /\ lastOp' = [Idle EXCEPT
                         !.op = "merge", !.c = c,
                         !.path = MergePath(GetCache(cache, c, now),
                                            setOk, fallbackOk)]
  /\ UNCHANGED <<now, displayedVideoIds, rateLimitHitCount,
                 lastRateLimitTime, sched, sel,
                 refreshButtonHandler>>

\* a getCache of a pool entry, as issued by phase 1 of getRandomContent
PoolRead ==
  /\ \E c \in PoolCreators :
       /\ cache' = GetCacheStore(cache, c, now)
       /\ lastOp' = [Idle EXCEPT !.op = "read", !.c = c]
  /\ UNCHANGED <<now, currentCachedVideos, displayedVideoIds,
                 rateLimitHitCount, lastRateLimitTime, sched, sel,
                 refreshButtonHandler>>

PoolCleanup ==
  /\ CleanupStaleCache
  /\ UNCHANGED <<now, displayedVideoIds, rateLimitHitCount,
                 lastRateLimitTime, sched, sel,
                 refreshButtonHandler>>

\* time passes: the clock advances by 90 minutes
Tick ==
  /\ now < T0 + MaxTicks * TickStep
  /\ now' = now + TickStep
  /\ lastOp' = [Idle EXCEPT !.op = "tick"]
  /\ UNCHANGED <<cache, currentCachedVideos, displayedVideoIds,
                 rateLimitHitCount, lastRateLimitTime, sched, sel,
                 refreshButtonHandler>>

PoolNext == PoolMerge \/ PoolRead \/ PoolCleanup \/ Tick

SpecPool == PoolInit /\ [][PoolNext]_vars

----------------------------------------------------------------------------
(* Properties of the pools over time *)

\* the ids of the pool persisted for creator c
PoolIds(c) == IF cache[c].present THEN IdsOf(cache[c].data) ELSE {}

\* C6: an id once in a creator's persisted pool stays in it over merges,
\* cache reads and the passing of time; only cleanupStaleCache removes ids
C6_PoolKeepsHistory ==
  [][lastOp'.op # "cleanup" =>
       \A c \in Creators : PoolIds(c) \subseteq PoolIds(c)']_vars

----------------------------------------------------------------------------
(* updateUserVideosInBackground in sequential mode: updateUsersSequentially *)
(* and fetchUserVideosFromNetwork, one action per unit between two awaits  *)

\* usersNeedingUpdate: no creator has a cached pool yet
SeqUsers == FollowedUsers

\* the items a successful response for creator c carries
SeqBatch(c) ==
  <<Item(c, CHOOSE id \in VideoIds(c) : \A o \in VideoIds(c) : id <= o, 0)>>

\* what one request can come back with: code 0 and a list, code -799,
\* another code or a payload without list, a failed / non-2xx request, or a
\* body that is not JSON
Responses == {"ok", "rateLimit", "apiError", "httpError", "malformed"}

\* shouldSkipDueToRateLimit
ShouldSkipDueToRateLimit ==
  rateLimitHitCount >= 2 /\ now - lastRateLimitTime < rateLimitWindow

\* Math.max(this.requestDelay * 1.5, 20000)
delayTime == Max((requestDelay * 3) \div 2, Ms(20000))

SeqInit ==
  /\ InitAdapter
  /\ sel = SelIdle
  /\ sched = [pc |-> "idle", users |-> SeqUsers, i |-> 0, attempt |-> 0,
              results |-> [k \in 1..Len(SeqUsers) |-> "none"],
              endedAt |-> [k \in 1..Len(SeqUsers) |-> 0],
              requests |-> [k \in 1..Len(SeqUsers) |-> 0],
              firstRequestAt |-> [k \in 1..Len(SeqUsers) |-> 0],
              brokeAt |-> 0]

\* updateUsersSequentially up to its loop: the counters are reset
SeqStart ==
  /\ sched.pc = "idle"
  /\ rateLimitHitCount' = 0
  /\ lastRateLimitTime' = 0
  /\ sched' = [sched EXCEPT !.pc = "check", !.i = 1]
  /\ lastOp' = [Idle EXCEPT !.op = "seqStart"]
  /\ UNCHANGED <<now, cache, currentCachedVideos, displayedVideoIds, sel,
                 refreshButtonHandler>>

\* the head of the loop: the loop condition and the circuit breaker
SeqCheck ==
  /\ sched.pc = "check"
  /\ sched' = IF sched.i > Len(sched.users)
              THEN [sched EXCEPT !.pc = "finish"]
              ELSE IF ShouldSkipDueToRateLimit
              THEN [sched EXCEPT !.pc = "finish", !.brokeAt = sched.i]
              ELSE [sched EXCEPT !.pc = "attempt", !.attempt = 1]
  /\ lastOp' = [Idle EXCEPT !.op = "seqCheck"]
  /\ UNCHANGED <<now, cache, currentCachedVideos, displayedVideoIds,
                 rateLimitHitCount, lastRateLimitTime, sel,
                 refreshButtonHandler>>

\* the fetch of creator sched.i has returned with this result
FetchReturned(result) ==
  [sched EXCEPT !.pc = "fetched",
                !.results[sched.i] = result,
                !.endedAt[sched.i] = now,
                !.requests[sched.i] = @ + 1,
                !.firstRequestAt[sched.i] = IF sched.attempt = 1 THEN now ELSE @]

\* an attempt of fetchUserVideosFromNetwork has failed (every failure is
\* thrown inside the try block): what its catch block does
OnAttemptFailure_Throws(attempt) ==
  IF attempt < maxRetries THEN "retry" ELSE "throw"

OnAttemptFailure(attempt) ==
  IF attempt < maxRetries THEN "retry" ELSE "return"

\* one attempt of fetchUserVideosFromNetwork: the request, its response and
\* what the loop body does with it
FetchAttempt ==
  /\ sched.pc = "attempt"
  /\ \E resp \in Responses : \E o \in StorageOutcomes :
     LET c == sched.users[sched.i]
         stored == resp = "ok" /\ o # 3
         result == IF resp = "rateLimit" THEN "rateLimited" ELSE "failed"
     IN /\ resp # "ok" => o = 1
        /\ IF resp = "ok"
           THEN IncrementalUpdateVideoCache(c, SeqBatch(c), o = 1, o = 2)
           ELSE UNCHANGED <<cache, currentCachedVideos>>
        /\ IF stored
           THEN /\ sched' = FetchReturned("ok")
                /\ now' = now
           ELSE IF OnAttemptFailure(sched.attempt) = "retry"
           THEN /\ sched' = [sched EXCEPT
                               !.attempt = @ + 1,
                               !.requests[sched.i] = @ + 1,
                               !.firstRequestAt[sched.i] =
                                  IF sched.attempt = 1 THEN now ELSE @]
                /\ now' = now + retryDelay
           ELSE IF OnAttemptFailure(sched.attempt) = "return"
           THEN /\ sched' = FetchReturned(result)
                /\ now' = now
           \* an exception leaving fetchUserVideosFromNetwork meets no handler
           \* in updateUsersSequentially or updateUserVideosInBackground
           ELSE /\ sched' = [FetchReturned(result) EXCEPT !.pc = "threw"]
                /\ now' = now
        /\ lastOp' = [Idle EXCEPT !.op = "attempt", !.c = c, !.path = resp]
  /\ UNCHANGED <<displayedVideoIds, rateLimitHitCount, lastRateLimitTime, sel,
                 refreshButtonHandler>>

\* the delay after creator i of n (i counts from 1): if (i < users.length - 1)
\* with i counting from 0
NextUserDelay_SkipsLast(i, n) == IF i < n - 1 THEN delayTime ELSE 0

NextUserDelay(i, n) == IF i < n THEN delayTime ELSE 0

\* the rest of the loop body after fetchUserVideosFromNetwork has returned
SeqAfterFetch ==
  /\ sched.pc = "fetched"
  /\ rateLimitHitCount' = 0
  /\ now' = now + NextUserDelay(sched.i, Len(sched.users))
  /\ sched' = [sched EXCEPT !.pc = "check", !.i = @ + 1]
  /\ lastOp' = [Idle EXCEPT !.op = "seqAfterFetch"]
  /\ UNCHANGED <<cache, currentCachedVideos, displayedVideoIds,
                 lastRateLimitTime, sel,
                 refreshButtonHandler>>

\* updateUserVideosInBackground after the loop: initializeRefreshButton
SeqFinish ==
  /\ sched.pc = "finish"
  /\ \E buttonFound \in BOOLEAN :
       InitializeRefreshButton(displayedVideoIds, TRUE, buttonFound)
  /\ sched' = [sched EXCEPT !.pc = "done"]
  /\ lastOp' = [Idle EXCEPT !.op = "seqFinish"]
  /\ UNCHANGED <<now, displayedVideoIds, rateLimitHitCount,
                 lastRateLimitTime, sel>>

SeqNext == SeqStart \/ SeqCheck \/ FetchAttempt \/ SeqAfterFetch \/ SeqFinish

SpecSeq == SeqInit /\ [][SeqNext]_vars

\* C12: the background update in sequential mode never throws to its
\* caller, whatever the responses and the outcomes of the cache writes
C12_BackgroundUpdateNeverThrows == sched.pc # "threw"

\* a run has finished in which one creator's fetch ended in a rate limit,
\* another's in a failure and a third was stored
C12_Witness ==
  /\ sched.pc = "done"
  /\ \E j, k, l \in 1..Len(sched.users) :
       /\ sched.results[j] = "rateLimited"
       /\ sched.results[k] = "failed"
       /\ sched.results[l] = "ok"

\* C1: once the fetches of two consecutive creators have each ended in a
\* rate-limit response, no request is issued for a later creator of the
\* queue within the 10-minute window
C1_BreakerStopsQueue ==
  \A k \in 1..(Len(sched.users) - 1) :
    (/\ sched.results[k] = "rateLimited"
     /\ sched.results[k + 1] = "rateLimited")
    => \A j \in (k + 2)..Len(sched.users) :
         \/ sched.requests[j] = 0
         \/ sched.firstRequestAt[j] - sched.endedAt[k + 1] >= rateLimitWindow

----------------------------------------------------------------------------
(* Selection: getRandomVideos, selectVideosSmartly, the history reset *)

Min(a, b) == IF a <= b THEN a ELSE b

IdSeq(videos) == [i \in 1..Len(videos) |-> videos[i].id]

\* the lists a shuffle with a random comparator followed by slice(0, k) can
\* give: k items of s at pairwise different positions, in any order
Arrangements(s, k) ==
  {[i \in 1..k |-> s[f[i]]] :
     f \in {g \in [1..k -> 1..Len(s)] :
              \A i, j \in 1..k : g[i] = g[j] => i = j}}

\* getRandomVideos(videos, count): the lists it can return
GetRandomVideos(videos, count) ==
  IF Len(videos) <= count THEN {videos} ELSE Arrangements(videos, count)

\* Math.ceil(count * 0.5)
LatestCount_Floor(count) == count \div 2

LatestCount(count) == (count + 1) \div 2

\* selectVideosSmartly(availableVideos, count): the lists it can return
SelectVideosSmartly(availableVideos, count) ==
  IF Len(availableVideos) <= count THEN {availableVideos}
  ELSE LET sortedVideos == SortDesc(availableVideos)
           latestCount  == LatestCount(count)
           randomCount  == count - latestCount
           selected     == SubSeq(sortedVideos, 1, latestCount)
           remaining    == SubSeq(sortedVideos, latestCount + 1,
                                  Len(sortedVideos))
       IN IF randomCount > 0 /\ Len(sortedVideos) > latestCount
          THEN {selected \o t :
                  t \in Arrangements(remaining,
                                     Min(randomCount, Len(remaining)))}
          ELSE {selected}

\* totalCachedVideos of intelligentResetDisplayHistory
RECURSIVE TotalCachedVideos(_, _, _)
TotalCachedVideos(st, users, t) ==
  IF users = <<>> THEN 0
  ELSE Len(GetCache(st, Head(users), t).data)
       + TotalCachedVideos(st, Tail(users), t)

\* shouldReset of intelligentResetDisplayHistory; displayRatio >= 0.8 is
\* 5 * size >= 4 * max(total, 1)
ShouldReset(mem, shown, total) ==
  \/ 5 * Len(shown) >= 4 * Max(total, 1)
  \/ (Len(shown) > historyCeiling /\ Len(mem) < lowPool)

\* Array.from(displayedVideoIds).slice(-historyKeep)
KeepRecent_Oldest(shown) == SubSeq(shown, 1, Min(historyKeep, Len(shown)))

KeepRecent(shown) ==
  SubSeq(shown, Max(1, Len(shown) - historyKeep + 1), Len(shown))

\* intelligentResetDisplayHistory: the in-memory pool and the history it
\* leaves, and whether it reset.  followOk = FALSE: getFollowedUsers throws,
\* the catch block drops the older half of the history and re-collects
IntelligentResetDisplayHistory(mem, shown, st, t, followOk) ==
  IF followOk
  THEN IF ShouldReset(mem, shown, TotalCachedVideos(st, FollowedUsers, t))
       THEN [mem |-> Collect(st, KeepRecent(shown), t, followOk),
             shown |-> KeepRecent(shown), reset |-> TRUE]
       ELSE [mem |-> mem, shown |-> shown, reset |-> FALSE]
  ELSE LET rest == SubSeq(shown, Len(shown) \div 2 + 1, Len(shown))
       IN [mem |-> Collect(st, rest, t, followOk), shown |-> rest,
           reset |-> TRUE]

\* step 1 of handleRefreshClick: re-collect and reset when the pool is short
Replenish(mem, shown, st, t, followOk) ==
  IF Len(mem) < totalVideosNeeded
  THEN LET collected == Collect(st, shown, t, followOk)
       IN IF Len(collected) < totalVideosNeeded
          THEN IntelligentResetDisplayHistory(collected, shown, st, t, followOk)
          ELSE [mem |-> collected, shown |-> shown, reset |-> FALSE]
  ELSE [mem |-> mem, shown |-> shown, reset |-> FALSE]

\* step 4 of handleRefreshClick: the selected items leave the pool
RemoveUsed_KeepAll(mem, usedIds) == mem

RemoveUsed(mem, usedIds) == SelectSeq(mem, LAMBDA v : v.id \notin usedIds)

\* how handleRefreshClick ends: with a message and an early return when the
\* pool or the selection is empty, otherwise with replaceContent(newVideos)
ShuffleEnds_Unguarded(mem, newVideos) == "replaced"

ShuffleEnds(mem, newVideos) ==
  IF Len(mem) = 0 \/ Len(newVideos) = 0 THEN "message" ELSE "replaced"

\* handleRefreshClick
HandleRefreshClick(followOk) ==
  LET r == Replenish(currentCachedVideos, displayedVideoIds, cache, now,
                     followOk)
  IN /\ cache' = IF Len(currentCachedVideos) < totalVideosNeeded
                 THEN CollectStore(cache, now, followOk) ELSE cache
     /\ IF Len(r.mem) = 0
        THEN /\ currentCachedVideos' = r.mem
             /\ displayedVideoIds' = r.shown
             /\ lastOp' = [Idle EXCEPT
                             !.op = "shuffle", !.hist = Range(r.shown),
                             !.reset = r.reset,
                             !.path = ShuffleEnds(r.mem, <<>>),
                             !.n = IF lastOp.op = "shuffle" THEN 2 ELSE 1]
        ELSE \E newVideos \in SelectVideosSmartly(r.mem, totalVideosNeeded) :
             /\ displayedVideoIds' = SetAddAll(r.shown, IdSeq(newVideos))
             /\ currentCachedVideos' = RemoveUsed(r.mem, IdsOf(newVideos))
             /\ lastOp' = [Idle EXCEPT
                             !.op = "shuffle",
                             !.selected = IdsOf(newVideos),
                             !.hist = Range(r.shown), !.reset = r.reset,
                             !.path = ShuffleEnds(r.mem, newVideos),
                             !.n = IF lastOp.op = "shuffle" THEN 2 ELSE 1]

\* phase 1 of getRandomContent: the lists cachedVideos can become, for the
\* selected users in their shuffled order
RECURSIVE CachedVideos(_, _, _)
CachedVideos(users, st, t) ==
  IF users = <<>> THEN {<<>>}
  ELSE LET cached == GetCache(st, Head(users), t)
           picks  == IF cached.hit
                     THEN GetRandomVideos(cached.data, videosPerUp)
                     ELSE {<<>>}
       IN {a \o b : a \in picks, b \in CachedVideos(Tail(users), st, t)}

\* getRandomContent up to the start of the background update: the cached
\* picks are handed to replaceContent, recorded in the history, and
\* initializeRefreshButton runs
GetRandomContent ==
  LET lists == UNION {CachedVideos([i \in 1..Len(FollowedUsers) |->
                                      FollowedUsers[order[i]]], cache, now) :
                        order \in Permutations(1..Len(FollowedUsers))}
      \* what a list leaves behind: its ids and the history with them added
      shows == {[selected |-> IdsOf(cachedVideos),
                 shown |-> SetAddAll(displayedVideoIds, IdSeq(cachedVideos))] :
                  cachedVideos \in lists}
  IN \E show \in shows :
       /\ IF show.selected # {}
          THEN /\ displayedVideoIds' = show.shown
               /\ \E buttonFound \in BOOLEAN :
                    InitializeRefreshButton(show.shown, TRUE, buttonFound)
          ELSE /\ cache' = ReadAllStore(cache, now)
               /\ UNCHANGED <<displayedVideoIds, currentCachedVideos,
                              refreshButtonHandler>>
       /\ lastOp' = [Idle EXCEPT !.op = "refresh",
                                 !.selected = show.selected,
                                 !.hist = Range(displayedVideoIds)]

----------------------------------------------------------------------------
(* selectVideosSmartly as a function: the initial states draw the         *)
(* candidate list and the count, the only action selects                  *)

SmartItems == {v \in Items(1) \cup Items(2) : v.likes = 0}

SmartInit ==
  /\ InitAdapter
  /\ sched = SchedIdle
  /\ \E candidates \in SeqsUpTo(SmartItems, MaxCandidates) :
       \E count \in 0..MaxCount :
         sel = [pc |-> "ready", candidates |-> candidates, count |-> count,
                result |-> <<>>]

SmartSelect ==
  /\ sel.pc = "ready"
  /\ \E result \in SelectVideosSmartly(sel.candidates, sel.count) :
       sel' = [sel EXCEPT !.pc = "selected", !.result = result]
  /\ lastOp' = [Idle EXCEPT !.op = "select"]
  /\ UNCHANGED <<now, cache, currentCachedVideos, displayedVideoIds,
                 rateLimitHitCount, lastRateLimitTime, sched,
                 refreshButtonHandler>>

SmartNext == SmartSelect

SpecSmart == SmartInit /\ [][SmartNext]_vars

\* C9: on a duplicate-free list longer than count selectVideosSmartly
\* returns count candidates with pairwise different ids, ceil(count / 2) of
\* which are published no earlier than every candidate outside them; a list
\* of at most count candidates is returned whole
C9_SmartSelection ==
  sel.pc = "selected" =>
    LET candidates == sel.candidates
        count      == sel.count
        result     == sel.result
    IN /\ (UniqueIds(candidates) /\ Len(candidates) > count) =>
            /\ Len(result) = count
            /\ UniqueIds(result)
            /\ Range(result) \subseteq Range(candidates)
            /\ \E latest \in SUBSET Range(result) :
                 /\ Cardinality(latest) = (count + 1) \div 2
                 /\ \A v \in latest : \A w \in Range(candidates) \ latest :
                      v.publishedAt >= w.publishedAt
       /\ Len(candidates) <= count => result = candidates

\* a selection of 3 out of 4 candidates, the newest of which is not first
C9_Witness ==
  /\ sel.pc = "selected"
  /\ UniqueIds(sel.candidates)
  /\ Len(sel.candidates) = 4
  /\ sel.count = 3
  /\ Len(sel.result) = 3
  /\ ~SortedDesc(sel.candidates)

----------------------------------------------------------------------------
(* The adapter in the page: refresh cycles, background merges, shuffles *)

\* the creators whose pools get fetched here
SelCreators == {1, 2}

\* the response for creator c: all its videos, in the order of the upstream
SelBatch(c) ==
  LET n == Cardinality(VideoIds(c))
      first == CHOOSE id \in VideoIds(c) : \A o \in VideoIds(c) : id <= o
  IN [i \in 1..n |-> Item(c, first + i - 1, 0)]

SelInit == InitAdapter /\ sched = SchedIdle /\ sel = SelIdle

\* a fetch of the background update has succeeded for creator c
SelMerge ==
  /\ \E c \in SelCreators : \E o \in StorageOutcomes :
       /\ IncrementalUpdateVideoCache(c, SelBatch(c), o = 1, o = 2)
       /\ lastOp' = [Idle EXCEPT !.op = "merge", !.c = c]
  /\ UNCHANGED <<now, displayedVideoIds, rateLimitHitCount,
                 lastRateLimitTime, sched, sel, refreshButtonHandler>>

\* the background update has finished: initializeRefreshButton
SelReinit ==
  /\ \E followOk \in BOOLEAN : \E buttonFound \in BOOLEAN :
       InitializeRefreshButton(displayedVideoIds, followOk, buttonFound)
  /\ lastOp' = [Idle EXCEPT !.op = "reinit"]
  /\ UNCHANGED <<now, displayedVideoIds, rateLimitHitCount,
                 lastRateLimitTime, sched, sel>>

\* a refresh cycle
SelRefresh ==
  /\ GetRandomContent
  /\ UNCHANGED <<now, rateLimitHitCount, lastRateLimitTime, sched, sel>>

\* a click on the hijacked roll button
SelShuffle ==
  /\ refreshButtonHandler
  /\ \E followOk \in BOOLEAN : HandleRefreshClick(followOk)
  /\ UNCHANGED <<now, rateLimitHitCount, lastRateLimitTime, sched, sel,
                 refreshButtonHandler>>

SelNext == SelMerge \/ SelReinit \/ SelRefresh \/ SelShuffle

SpecSel == SelInit /\ [][SelNext]_vars

\* the ids of the items in the cached pools
KnownIds == UNION {PoolIds(c) : c \in Creators}

C8_RenderedNotInHistory ==
  (lastOp.op \in {"refresh", "shuffle"} /\ ~lastOp.reset)
    => lastOp.selected \cap lastOp.hist = {}

\* C10: a shuffle requested while the history holds at least 80% of the
\* known items shrinks the history before it selects
C10_ShuffleShrinksFullHistory ==
  [][(/\ lastOp'.op = "shuffle"
      /\ KnownIds # {}
      /\ 5 * Cardinality(KnownIds \cap Range(displayedVideoIds))
           >= 4 * Cardinality(KnownIds))
     => Cardinality(lastOp'.hist) < Len(displayedVideoIds)]_vars

\* every cached item has been shown and the roll button is hijacked
AllKnownShown ==
  /\ refreshButtonHandler
  /\ KnownIds # {}
  /\ KnownIds \subseteq Range(displayedVideoIds)

\* C11: a shuffle requested when every cached item is in the history,
\* whatever the size of the history, hands a non-empty selection to the
\* Renderer or at least changes the pools or the history, so that the
\* shuffles that follow cannot stay empty forever
C11_FeedRecirculates ==
  [][(AllKnownShown /\ lastOp'.op = "shuffle")
     => \/ lastOp'.selected # {}
        \/ <<cache, currentCachedVideos, displayedVideoIds>>'
             # <<cache, currentCachedVideos, displayedVideoIds>>]_vars

----------------------------------------------------------------------------
(* updateUserVideosInBackground in both modes.  loadRequestSettings forces *)
(* concurrentRequests to false, so the concurrent mode runs only when the  *)
(* method is entered with the field set; the initial states draw the field *)

\* largest concurrentLimit
MaxConcurrent == 2

BgInit ==
  /\ InitAdapter
  /\ sel = SelIdle
  /\ \E concurrentRequests \in BOOLEAN :
     \E concurrentLimit \in 1..MaxConcurrent :
       sched = [pc |-> "idle", users |-> SeqUsers, i |-> 0, attempt |-> 0,
                results |-> [k \in 1..Len(SeqUsers) |-> "none"],
                endedAt |-> [k \in 1..Len(SeqUsers) |-> 0],
                requests |-> [k \in 1..Len(SeqUsers) |-> 0],
                firstRequestAt |-> [k \in 1..Len(SeqUsers) |-> 0],
                brokeAt |-> 0,
                concurrentRequests |-> concurrentRequests,
                concurrentLimit |-> concurrentLimit,
                batchStart |-> 0,
                status |-> [k \in 1..Len(SeqUsers) |-> "queued"],
                attempts |-> [k \in 1..Len(SeqUsers) |-> 0]]

\* the else branch of updateUserVideosInBackground
BgSeqStart == ~sched.concurrentRequests /\ SeqStart

\* the then branch: updateUsersConcurrently up to its loop over the batches
ConcStart ==
  /\ sched.pc = "idle"
  /\ sched.concurrentRequests
  /\ sched' = [sched EXCEPT !.pc = "batch", !.batchStart = 1]
  /\ lastOp' = [Idle EXCEPT !.op = "concStart"]
  /\ UNCHANGED <<now, cache, currentCachedVideos, displayedVideoIds,
                 rateLimitHitCount, lastRateLimitTime, sel,
                 refreshButtonHandler>>

\* the positions in users of the batch that starts at batchStart
BatchOf_RestOfQueue(s) == {k \in 1..Len(s.users) : k >= s.batchStart}

BatchOf(s) ==
  {k \in 1..Len(s.users) :
     k >= s.batchStart /\ k < s.batchStart + s.concurrentLimit}

\* the head of the loop over the batches: batch.map starts every fetch of
\* the batch
ConcBatch ==
  /\ sched.pc = "batch"
  /\ sched' = IF sched.batchStart > Len(sched.users)
              THEN [sched EXCEPT !.pc = "finish"]
              ELSE [sched EXCEPT
                      !.pc = "wait",
                      !.status = [k \in 1..Len(sched.users) |->
                                    IF k \in BatchOf(sched)
                                    THEN "running" ELSE @[k]],
                      !.attempts = [k \in 1..Len(sched.users) |->
                                      IF k \in BatchOf(sched) THEN 1 ELSE @[k]]]
  /\ lastOp' = [Idle EXCEPT !.op = "concBatch"]
  /\ UNCHANGED <<now, cache, currentCachedVideos, displayedVideoIds,
                 rateLimitHitCount, lastRateLimitTime, sel,
                 refreshButtonHandler>>

\* one attempt of fetchUserVideosFromNetwork for a creator of the running
\* batch; an exception leaving the fetch is caught by the callback of
\* batch.map, which settles with success: false
ConcAttempt ==
  /\ sched.pc = "wait"
  /\ \E k \in BatchOf(sched) : \E resp \in Responses :
     \E o \in StorageOutcomes :
     LET c == sched.users[k]
         stored == resp = "ok" /\ o # 3
         result == IF resp = "rateLimit" THEN "rateLimited" ELSE "failed"
         first == IF sched.attempts[k] = 1 THEN now ELSE sched.firstRequestAt[k]
     IN /\ sched.status[k] = "running"
        /\ resp # "ok" => o = 1
        /\ IF resp = "ok"
           THEN IncrementalUpdateVideoCache(c, SeqBatch(c), o = 1, o = 2)
           ELSE UNCHANGED <<cache, currentCachedVideos>>
        /\ sched' =
             IF ~stored /\ OnAttemptFailure(sched.attempts[k]) = "retry"
             THEN [sched EXCEPT !.attempts[k] = @ + 1,
                                !.requests[k] = @ + 1,
                                !.firstRequestAt[k] = first]
             ELSE [sched EXCEPT !.status[k] = "settled",
                                !.results[k] = IF stored THEN "ok" ELSE result,
                                !.endedAt[k] = now,
                                !.requests[k] = @ + 1,
                                !.firstRequestAt[k] = first]
        /\ lastOp' = [Idle EXCEPT !.op = "concAttempt", !.c = c, !.path = resp]
  /\ UNCHANGED <<now, displayedVideoIds, rateLimitHitCount, lastRateLimitTime,
                 sel, refreshButtonHandler>>

\* Promise.allSettled has resolved: the delay between batches
ConcSettled ==
  /\ sched.pc = "wait"
  /\ \A k \in BatchOf(sched) : sched.status[k] = "settled"
  /\ sched' = [sched EXCEPT !.pc = "batch",
                            !.batchStart = @ + sched.concurrentLimit]
  /\ now' = IF sched.batchStart + sched.concurrentLimit <= Len(sched.users)
            THEN now + 2 * requestDelay ELSE now
  /\ lastOp' = [Idle EXCEPT !.op = "concSettled"]
  /\ UNCHANGED <<cache, currentCachedVideos, displayedVideoIds,
                 rateLimitHitCount, lastRateLimitTime, sel,
                 refreshButtonHandler>>

BgNext ==
  \/ BgSeqStart \/ SeqCheck \/ FetchAttempt \/ SeqAfterFetch
  \/ ConcStart \/ ConcBatch \/ ConcAttempt \/ ConcSettled
  \/ SeqFinish

SpecBg == BgInit /\ [][BgNext]_vars

\* C13: a creator whose fetch fails does not stop the batch: when the
\* update ends every creator has had a request and its fetch has run to its
\* end, except the creators from the point where the circuit breaker, checked
\* at the head of the sequential loop, broke the loop
C13_FailureDoesNotStopBatch ==
  sched.pc \in {"done", "threw"} =>
    \A k \in 1..Len(sched.users) :
      \/ sched.requests[k] >= 1 /\ sched.results[k] # "none"
      \/ sched.brokeAt > 0 /\ k >= sched.brokeAt /\ sched.requests[k] = 0

\* a finished update in which the first creator's fetch failed for good and
\* a later creator's pool was stored
C13_Witness ==
  /\ sched.pc = "done"
  /\ sched.results[1] \in {"failed", "rateLimited"}
  /\ sched.requests[1] = maxRetries
  /\ \E k \in 2..Len(sched.users) : sched.results[k] = "ok"

\* the position in the queue of the creator the last attempt was for
LastFetched == CHOOSE k \in 1..Len(sched.users) : sched.users[k] = lastOp.c

\* C14: an attempt of a creator's fetch that fails leaves every persisted
\* pool as it was, so a fetch whose attempts all fail changes neither its
\* creator's pool nor another creator's
C14_FailedFetchKeepsPools ==
  [][(/\ lastOp'.op \in {"attempt", "concAttempt"}
      /\ sched'.results[LastFetched'] # "ok")
     => cache' = cache]_vars

\* the last attempt for creator 2 got a list and failed on both cache
\* writes, while creator 1's pool is persisted
C14_Witness ==
  /\ lastOp.op \in {"attempt", "concAttempt"}
  /\ lastOp.c = 2
  /\ lastOp.path = "ok"
  /\ sched.results[2] = "failed"
  /\ cache[1].present
  /\ ~cache[2].present

\* the fetch of the creator at position k is between two attempts
Running(k) ==
  \/ sched.pc = "attempt" /\ sched.i = k
  \/ sched.pc = "wait" /\ sched.status[k] = "running"

\* at most maxRetries requests a fetch
RequestsBounded ==
  \A k \in 1..Len(sched.users) : sched.requests[k] <= maxRetries

\* the fetch is over after its third request
ReturnsAfterLastAttempt ==
  \A k \in 1..Len(sched.users) :
    sched.requests[k] = maxRetries => ~Running(k)

\* C15: a fetch issues at most 3 requests, is over after the third, and is
\* over as soon as a request was answered with a list
C15_FetchAttemptsBounded ==
  /\ RequestsBounded
  /\ ReturnsAfterLastAttempt
  /\ (lastOp.op \in {"attempt", "concAttempt"} /\ lastOp.path = "ok")
       => ~Running(LastFetched)

----------------------------------------------------------------------------
(* A refresh cycle up to phase 1: getRandomContent and getFollowedUsers *)

\* the page size of the follow-list requests, 50 in the source
pageSize == 2

\* BilibiliAdapter.maxUpSers, 100 in the source: two full pages
maxUpSers == 2 * pageSize

\* the time between two refresh cycles advances in steps of 13 hours
FollowTickStep == Ms(13 * 60 * 60 * 1000)

\* the number of refresh cycles of one run
MaxCycles == 4

\* the page the upstream answers with
PageOf(list, page) ==
  SubSeq(list, (page - 1) * pageSize + 1, Min(page * pageSize, Len(list)))

\* the login check and the user id of getFollowedUsers
LoginGate_SkipsUid(isLoggedIn, uid) == isLoggedIn

LoginGate(isLoggedIn, uid) == isLoggedIn /\ uid

\* if (cached) of getFollowedUsers: an array, empty or not, is truthy
FollowCacheHit_NonEmpty(cached) == cached.hit /\ Len(cached.data) > 0

FollowCacheHit(cached) == cached.hit

FollowResponses == {"ok", "httpError", "apiError", "malformed"}

FollowIdle(upstream, cycles) ==
  [pc |-> "idle", upstream |-> upstream, cycles |-> cycles, isLoggedIn |-> TRUE, uid |-> TRUE,
   hadEntry |-> FALSE, entryData |-> <<>>, page |-> 0, allUps |-> <<>>,
   requests |-> 0, cacheReads |-> 0, cacheWrites |-> 0, result |-> <<>>,
   error |-> "none", lastRequestAt |-> 0]

FollowInit ==
  /\ InitAdapter
  /\ sel = SelIdle
  /\ \E upstream \in {<<>>, FollowedUsers} : sched = FollowIdle(upstream, 0)

\* getRandomContent up to the first await of getFollowedUsers that can
\* leave the page: the login check, the user id and the followings cache
CycleStart ==
  /\ sched.pc \in {"idle", "cycleThrew", "cycleOn"}
  /\ sched.cycles < MaxCycles
  /\ \E isLoggedIn \in BOOLEAN : \E uid \in BOOLEAN :
     LET call == [FollowIdle(sched.upstream, sched.cycles + 1) EXCEPT
                    !.isLoggedIn = isLoggedIn, !.uid = uid]
         cached == GetCache(cache, FollowingsKey, now)
     IN IF ~LoginGate(isLoggedIn, uid)
        THEN /\ sched' = [call EXCEPT !.pc = "threw",
                                      !.error = "NOT_LOGGED_IN"]
             /\ cache' = cache
        ELSE /\ cache' = GetCacheStore(cache, FollowingsKey, now)
             /\ sched' =
                  [call EXCEPT
                     !.cacheReads = 1,
                     !.hadEntry = cached.hit,
                     !.entryData = cached.data,
                     !.page = 1,
                     !.pc = IF FollowCacheHit(cached)
                            THEN "returned" ELSE "paging",
                     !.result = IF FollowCacheHit(cached)
                                THEN cached.data ELSE <<>>]
  /\ lastOp' = [Idle EXCEPT !.op = "cycleStart"]
  /\ UNCHANGED <<now, currentCachedVideos, displayedVideoIds,
                 rateLimitHitCount, lastRateLimitTime, sel,
                 refreshButtonHandler>>

\* the paging loop goes on after a page: the page was full (no break) and
\* the loop condition allUps.length < maxUpSers still holds
MorePages_NoCap(list, allUps) == Len(list) = pageSize

MorePages(list, allUps) ==
  /\ Len(list) = pageSize
  /\ Len(allUps) < maxUpSers

\* a page request fails: !response.ok, an unparsable body, data.code !== 0
FollowFailed_HttpOnly(resp) == resp = "httpError"

FollowFailed(resp) == resp # "ok"

\* the delay after page++ when the loop did not break
NextPageDelay_Always(allUps) == requestDelay

NextPageDelay(allUps) ==
  IF Len(allUps) < maxUpSers THEN requestDelay ELSE 0

\* one turn of the paging loop of getFollowedUsers, and what follows the
\* loop when this turn ends it: setCache and return
FollowPage ==
  /\ sched.pc = "paging"
  /\ \E resp \in FollowResponses : \E writeOk \in BOOLEAN :
     LET list == PageOf(sched.upstream, sched.page)
         allUps == sched.allUps \o list
         asked == [sched EXCEPT !.requests = @ + 1, !.lastRequestAt = now]
         more == MorePages(list, allUps)
         pause == IF Len(list) = pageSize THEN NextPageDelay(allUps) ELSE 0
     IN /\ lastOp' = [Idle EXCEPT !.op = "followPage", !.path = resp]
        /\ IF FollowFailed(resp)
           THEN /\ writeOk
                /\ sched' = [asked EXCEPT !.pc = "threw", !.error = "network"]
                /\ UNCHANGED <<now, cache>>
           ELSE IF more
           THEN /\ writeOk
                /\ sched' = [asked EXCEPT !.allUps = allUps, !.page = @ + 1]
                /\ now' = now + pause
                /\ cache' = cache
           ELSE IF writeOk
           THEN /\ sched' = [asked EXCEPT !.allUps = allUps,
                                          !.cacheWrites = @ + 1,
                                          !.pc = "returned",
                                          !.result = allUps]
                /\ now' = now + pause
                /\ cache' = SetCache(cache, FollowingsKey, allUps,
                                     FOLLOWED_USERS_TTL, now + pause)
           ELSE /\ sched' = [asked EXCEPT !.allUps = allUps,
                                          !.pc = "threw", !.error = "storage"]
                /\ now' = now + pause
                /\ cache' = cache
  /\ UNCHANGED <<currentCachedVideos, displayedVideoIds, rateLimitHitCount,
                 lastRateLimitTime, sel, refreshButtonHandler>>

\* getRandomContent after getFollowedUsers: an exception of getFollowedUsers
\* passes through, an empty list is an error, otherwise phase 1 runs
CycleContinue ==
  /\ sched.pc \in {"returned", "threw"}
  /\ IF sched.pc = "returned" /\ Len(sched.result) > 0
     THEN /\ GetRandomContent
          /\ sched' = [sched EXCEPT !.pc = "cycleOn"]
     ELSE /\ sched' = [sched EXCEPT
                         !.pc = "cycleThrew",
                         !.error = IF sched.pc = "returned"
                                   THEN "NO_FOLLOWED" ELSE @]
          /\ lastOp' = [Idle EXCEPT !.op = "cycleThrew"]
          /\ UNCHANGED <<cache, currentCachedVideos, displayedVideoIds,
                         refreshButtonHandler>>
  /\ UNCHANGED <<now, rateLimitHitCount, lastRateLimitTime, sel>>

\* time passes between two refresh cycles
FollowTick ==
  /\ sched.pc \in {"idle", "cycleThrew", "cycleOn"}
  /\ now < T0 + MaxTicks * FollowTickStep
  /\ now' = now + FollowTickStep
  /\ lastOp' = [Idle EXCEPT !.op = "tick"]
  /\ UNCHANGED <<cache, currentCachedVideos, displayedVideoIds,
                 rateLimitHitCount, lastRateLimitTime, sched, sel,
                 refreshButtonHandler>>

FollowNext == CycleStart \/ FollowPage \/ CycleContinue \/ FollowTick

SpecFollow == FollowInit /\ [][FollowNext]_vars

\* C16: a call of getFollowedUsers that finds a non-expired followings
\* entry returns the entry's data and issues no follow-list request and no
\* cache write
C16_FollowCacheHitShortCircuits ==
  (sched.pc \in {"paging", "returned", "threw"} /\ sched.hadEntry)
    => /\ sched.pc = "returned"
       /\ sched.result = sched.entryData
       /\ sched.requests = 0
       /\ sched.cacheWrites = 0

\* a call has returned the cached list of creators without a request
C16_Witness ==
  /\ sched.pc = "returned"
  /\ sched.hadEntry
  /\ sched.result = FollowedUsers
  /\ sched.requests = 0

\* C17: a call of getFollowedUsers whose login check fails, or that finds
\* no user id, throws the not-logged-in error without a follow-list request,
\* a read of the followings cache or a cache write
C17_NotLoggedInThrowsFirst ==
  (sched.pc \in {"paging", "returned", "threw"}
     /\ ~(sched.isLoggedIn /\ sched.uid))
    => /\ sched.pc = "threw"
       /\ sched.error = "NOT_LOGGED_IN"
       /\ sched.requests = 0
       /\ sched.cacheReads = 0
       /\ sched.cacheWrites = 0

\* the login check passed, no user id was found, and the call threw although
\* a followings entry is cached
C17_Witness ==
  /\ sched.pc = "threw"
  /\ sched.isLoggedIn
  /\ ~sched.uid
  /\ cache[FollowingsKey].present
  /\ now <= cache[FollowingsKey].expiresAt

\* C19: a refresh cycle throws to its caller only the not-logged-in error
\* and the error of an empty follow list
C19_CycleThrowsOnlyLoginOrEmpty ==
  sched.pc = "cycleThrew" => sched.error \in {"NOT_LOGGED_IN", "NO_FOLLOWED"}

----------------------------------------------------------------------------
(* StorageManager alone: setCache, getCache and cleanExpiredCache over time *)

TtlKeys == {FollowingsKey, 1}

TtlValues == {<<>>, FollowedUsers}

Ttls == {CONTENT_TTL, FOLLOWED_USERS_TTL}

\* time advances by the smallest unit or by one of the two TTLs, so that a
\* read falls on the instant an entry expires and on the instant after it
TtlSteps == {Ms(100)} \cup Ttls

NotWritten == [done |-> FALSE, c |-> 0, t |-> 0, data |-> <<>>]

NoRead == [key |-> FollowingsKey, hit |-> FALSE, data |-> <<>>]

TtlInit ==
  /\ InitAdapter
  /\ sel = SelIdle
  /\ sched = [written |-> [k \in TtlKeys |-> NotWritten], read |-> NoRead,
              ticks |-> 0]

\* StorageManager.setCache(key, data, ttl) resolves
TtlSet ==
  /\ \E key \in TtlKeys : \E data \in TtlValues : \E ttl \in Ttls :
       /\ cache' = SetCache(cache, key, data, ttl, now)
       /\ sched' = [sched EXCEPT
                      !.written[key] = [done |-> TRUE, c |-> now, t |-> ttl,
                                        data |-> data]]
  /\ lastOp' = [Idle EXCEPT !.op = "set"]
  /\ UNCHANGED <<now, currentCachedVideos, displayedVideoIds,
                 rateLimitHitCount, lastRateLimitTime, sel,
                 refreshButtonHandler>>

\* StorageManager.getCache(key)
TtlGet ==
  /\ \E key \in TtlKeys :
       LET cached == GetCache(cache, key, now)
       IN /\ cache' = GetCacheStore(cache, key, now)
          /\ sched' = [sched EXCEPT
                         !.read = [key |-> key, hit |-> cached.hit,
                                   data |-> cached.data]]
  /\ lastOp' = [Idle EXCEPT !.op = "get"]
  /\ UNCHANGED <<now, currentCachedVideos, displayedVideoIds,
                 rateLimitHitCount, lastRateLimitTime, sel,
                 refreshButtonHandler>>

\* StorageManager.cleanExpiredCache()
TtlClean ==
  /\ cache' = CleanExpiredCache(cache, now)
  /\ lastOp' = [Idle EXCEPT !.op = "clean"]
  /\ UNCHANGED <<now, currentCachedVideos, displayedVideoIds,
                 rateLimitHitCount, lastRateLimitTime, sched, sel,
                 refreshButtonHandler>>

TtlTick ==
  /\ sched.ticks < MaxTicks
  /\ \E d \in TtlSteps : now' = now + d
  /\ sched' = [sched EXCEPT !.ticks = @ + 1]
  /\ lastOp' = [Idle EXCEPT !.op = "tick"]
  /\ UNCHANGED <<cache, currentCachedVideos, displayedVideoIds,
                 rateLimitHitCount, lastRateLimitTime, sel,
                 refreshButtonHandler>>

TtlNext == TtlSet \/ TtlGet \/ TtlClean \/ TtlTick

SpecTTL == TtlInit /\ [][TtlNext]_vars

\* the last setCache of the key the last getCache asked for
WrittenRead == sched.written[sched.read.key]

\* C18: getCache returns what the last setCache(key, value, t) of the key
\* stored at time c at every time up to and including c + t, and null at
\* every later time
C18_EntryLivesForTtl ==
  (lastOp.op = "get" /\ WrittenRead.done)
    => IF now <= WrittenRead.c + WrittenRead.t
       THEN sched.read.hit /\ sched.read.data = WrittenRead.data
       ELSE ~sched.read.hit

\* a read at the very instant c + t has returned the value
C18_Witness ==
  /\ lastOp.op = "get"
  /\ WrittenRead.done
  /\ now = WrittenRead.c + WrittenRead.t
  /\ sched.read.hit
  /\ sched.read.data = FollowedUsers

----------------------------------------------------------------------------
(* Refresh cycles of the content script on the one BilibiliAdapter of the  *)
(* PlatformManager: two cycles, each with its background update            *)

Cycles == {1, 2}

\* the number of refresh cycles requested in one run
MaxStarts == 2

\* usersNeedingUpdate of getRandomContent: the creators getCache misses
UsersNeedingUpdate ==
  SelectSeq(FollowedUsers, LAMBDA c : ~GetCache(cache, c, now).hit)

CycleInit ==
  /\ InitAdapter
  /\ sel = SelIdle
  /\ sched = [isProcessing |-> FALSE,
              fg |-> [p \in Cycles |-> "idle"],
              queue |-> [p \in Cycles |-> <<>>],
              updating |-> [p \in Cycles |-> FALSE],
              starts |-> 0]

\* cycle p has been started and has not finished: its caller still awaits
\* it, or its background update still runs
InProgress(p) == sched.fg[p] # "idle" \/ sched.updating[p]

\* the cycle a new request becomes
NextCycle == IF InProgress(1) THEN 2 ELSE 1

\* ContentScript.startContentReplacement up to the await of getRandomContent
\* (the initial call, the refreshContent message, or initialize after
\* reinitialize)
StartContentReplacement ==
  /\ ~InProgress(NextCycle)
  /\ sched.starts < MaxStarts
  /\ IF sched.isProcessing
     THEN /\ sched' = [sched EXCEPT !.starts = @ + 1]
          /\ lastOp' = [Idle EXCEPT !.op = "notStarted"]
     ELSE /\ sched' = [sched EXCEPT !.isProcessing = TRUE,
                                    !.fg[NextCycle] = "start",
                                    !.starts = @ + 1]
          /\ lastOp' = [Idle EXCEPT !.op = "start", !.n = NextCycle]
  /\ UNCHANGED <<now, cache, currentCachedVideos, displayedVideoIds,
                 rateLimitHitCount, lastRateLimitTime, sel,
                 refreshButtonHandler>>

\* the handler of the getRandomContent message up to the await of
\* platformManager.getRandomContent
MessageGetRandomContent ==
  /\ ~InProgress(NextCycle)
  /\ sched.starts < MaxStarts
  /\ sched' = [sched EXCEPT !.fg[NextCycle] = "message", !.starts = @ + 1]
  /\ lastOp' = [Idle EXCEPT !.op = "message", !.n = NextCycle]
  /\ UNCHANGED <<now, cache, currentCachedVideos, displayedVideoIds,
                 rateLimitHitCount, lastRateLimitTime, sel,
                 refreshButtonHandler>>

\* ContentScript.reinitialize up to the await of initialize
Reinitialize ==
  /\ sched.isProcessing
  /\ sched' = [sched EXCEPT !.isProcessing = FALSE]
  /\ lastOp' = [Idle EXCEPT !.op = "reinitialize"]
  /\ UNCHANGED <<now, cache, currentCachedVideos, displayedVideoIds,
                 rateLimitHitCount, lastRateLimitTime, sel,
                 refreshButtonHandler>>

\* BilibiliAdapter.getRandomContent of cycle p: phase 1, then the background
\* update is started without an await and runs up to its first await
CycleGetRandomContent ==
  /\ \E p \in Cycles :
       /\ sched.fg[p] \in {"start", "message"}
       /\ GetRandomContent
       /\ sched' = [sched EXCEPT
                      !.fg[p] = IF @ = "start" THEN "replace" ELSE "idle",
                      !.queue[p] = UsersNeedingUpdate,
                      !.updating[p] = UsersNeedingUpdate # <<>>]
       /\ IF UsersNeedingUpdate # <<>>
          THEN rateLimitHitCount' = 0 /\ lastRateLimitTime' = 0
          ELSE UNCHANGED <<rateLimitHitCount, lastRateLimitTime>>
  /\ UNCHANGED <<now, sel>>

\* startContentReplacement after getRandomContent: replaceContent and the
\* finally block
FinishContentReplacement ==
  /\ \E p \in Cycles :
       /\ sched.fg[p] = "replace"
       /\ sched' = [sched EXCEPT !.fg[p] = "idle", !.isProcessing = FALSE]
       /\ lastOp' = [Idle EXCEPT !.op = "finish", !.n = p]
  /\ UNCHANGED <<now, cache, currentCachedVideos, displayedVideoIds,
                 rateLimitHitCount, lastRateLimitTime, sel,
                 refreshButtonHandler>>

\* the background update of cycle p fetches the next creator of its queue
\* (the storage accepts the write of a fetched list)
CycleFetch ==
  /\ \E p \in Cycles : \E resp \in {"ok", "failed"} :
       LET c == Head(sched.queue[p])
       IN /\ sched.updating[p]
          /\ sched.queue[p] # <<>>
          /\ IF resp = "ok"
             THEN IncrementalUpdateVideoCache(c, SelBatch(c), TRUE, TRUE)
             ELSE UNCHANGED <<cache, currentCachedVideos>>
          /\ rateLimitHitCount' = 0
          /\ sched' = [sched EXCEPT !.queue[p] = Tail(@)]
          /\ lastOp' = [Idle EXCEPT !.op = "fetch", !.n = p]
  /\ UNCHANGED <<now, displayedVideoIds, lastRateLimitTime, sel,
                 refreshButtonHandler>>

\* updateUserVideosInBackground of cycle p after its loop
CycleUpdateDone ==
  /\ \E p \in Cycles : \E followOk \in BOOLEAN : \E buttonFound \in BOOLEAN :
       /\ sched.updating[p]
       /\ sched.queue[p] = <<>>
       /\ InitializeRefreshButton(displayedVideoIds, followOk, buttonFound)
       /\ sched' = [sched EXCEPT !.updating[p] = FALSE]
       /\ lastOp' = [Idle EXCEPT !.op = "updateDone", !.n = p]
  /\ UNCHANGED <<now, displayedVideoIds, rateLimitHitCount,
                 lastRateLimitTime, sel>>

CycleNext ==
  \/ StartContentReplacement
  \/ MessageGetRandomContent
  \/ Reinitialize
  \/ CycleGetRandomContent
  \/ FinishContentReplacement
  \/ CycleFetch
  \/ CycleUpdateDone

SpecCycle == CycleInit /\ [][CycleNext]_vars

\* C20: at most one refresh cycle, its background update included, is in
\* progress at any time
C20_OneCycleAtATime == ~(InProgress(1) /\ InProgress(2))

----------------------------------------------------------------------------
(* The order and the spacing of the fetches of one sequential run *)

\* the creators whose fetch has issued a request and has not returned
InFlight ==
  {k \in 1..Len(sched.users) :
     sched.requests[k] > 0 /\ sched.results[k] = "none"}

\* C21: in one sequential run at most one creator's fetch is in flight, the
\* fetch of creator k + 1 issues its first request only after the fetch of
\* creator k has returned, and at least delayTime lies between the two
C21_SequentialOrderAndDelay ==
  /\ Cardinality(InFlight) <= 1
  /\ \A k \in 1..(Len(sched.users) - 1) :
       sched.requests[k + 1] > 0
         => /\ sched.results[k] # "none"
            /\ sched.firstRequestAt[k + 1] >= sched.endedAt[k] + delayTime

\* a run has fetched every creator, the last one after two retries
C21_Witness ==
  /\ sched.pc = "done"
  /\ \A k \in 1..Len(sched.users) : sched.results[k] # "none"
  /\ sched.requests[Len(sched.users)] = maxRetries
  /\ sched.firstRequestAt[Len(sched.users)]
       = sched.endedAt[Len(sched.users) - 1] + delayTime

----------------------------------------------------------------------------
(* loadRequestSettings, and the mode the background update then runs in *)

\* what configManager.getConfig can give loadRequestSettings: it throws, the
\* configuration has no entry for the platform, or the platform's entry
PlatformConfigs ==
  {[kind |-> "throws"], [kind |-> "missing"]}
    \cup [kind : {"config"}, concurrentRequests : BOOLEAN,
          concurrentLimit : 1..MaxConcurrent]

\* setDefaultSettings
DefaultSettings == [concurrentRequests |-> FALSE, concurrentLimit |-> 1]

\* the concurrency fields loadRequestSettings leaves in the adapter
LoadedSettings_AsConfigured(platformConfig) ==
  IF platformConfig.kind # "config"
  THEN DefaultSettings
  ELSE [concurrentRequests |-> platformConfig.concurrentRequests,
        concurrentLimit |-> platformConfig.concurrentLimit]

LoadedSettings(platformConfig) ==
  IF platformConfig.kind # "config"
  THEN DefaultSettings
  ELSE IF platformConfig.concurrentRequests
          \/ platformConfig.concurrentLimit > 1
  THEN [concurrentRequests |-> FALSE, concurrentLimit |-> 1]
  ELSE [concurrentRequests |-> platformConfig.concurrentRequests,
        concurrentLimit |-> platformConfig.concurrentLimit]

\* a new adapter: concurrentRequests = false, concurrentLimit = 1
SettingsInit ==
  /\ InitAdapter
  /\ sel = SelIdle
  /\ sched = [pc |-> "load", users |-> SeqUsers, i |-> 0, attempt |-> 0,
              results |-> [k \in 1..Len(SeqUsers) |-> "none"],
              endedAt |-> [k \in 1..Len(SeqUsers) |-> 0],
              requests |-> [k \in 1..Len(SeqUsers) |-> 0],
              firstRequestAt |-> [k \in 1..Len(SeqUsers) |-> 0],
              brokeAt |-> 0,
              concurrentRequests |-> FALSE,
              concurrentLimit |-> 1,
              batchStart |-> 0,
              status |-> [k \in 1..Len(SeqUsers) |-> "queued"],
              attempts |-> [k \in 1..Len(SeqUsers) |-> 0],
              platformConfig |-> [kind |-> "missing"]]

\* loadRequestSettings, called at the head of getRandomContent
LoadRequestSettings ==
  /\ sched.pc = "load"
  /\ \E platformConfig \in PlatformConfigs :
       sched' = [sched EXCEPT
                   !.pc = "idle",
                   !.platformConfig = platformConfig,
                   !.concurrentRequests =
                      LoadedSettings(platformConfig).concurrentRequests,
                   !.concurrentLimit =
                      LoadedSettings(platformConfig).concurrentLimit]
  /\ lastOp' = [Idle EXCEPT !.op = "loadRequestSettings"]
  /\ UNCHANGED <<now, cache, currentCachedVideos, displayedVideoIds,
                 rateLimitHitCount, lastRateLimitTime, sel,
                 refreshButtonHandler>>

\* updateUserVideosInBackground up to the loop of the mode it chooses
UpdateUserVideosInBackground ==
  /\ sched.pc = "idle"
  /\ IF sched.concurrentRequests
     THEN /\ sched' = [sched EXCEPT !.pc = "batch", !.batchStart = 1]
          /\ lastOp' = [Idle EXCEPT !.op = "concStart"]
          /\ UNCHANGED <<now, cache, currentCachedVideos, displayedVideoIds,
                         rateLimitHitCount, lastRateLimitTime, sel,
                         refreshButtonHandler>>
     ELSE SeqStart

SettingsNext ==
  \/ LoadRequestSettings
  \/ UpdateUserVideosInBackground
  \/ SeqCheck
  \/ FetchAttempt
  \/ SeqAfterFetch
  \/ SeqFinish

SpecSettings == SettingsInit /\ [][SettingsNext]_vars

\* the configuration asks for concurrency
UnsafeConfig(platformConfig) ==
  /\ platformConfig.kind = "config"
  /\ platformConfig.concurrentRequests \/ platformConfig.concurrentLimit > 1

\* C22: after loadRequestSettings has read a configuration with
\* concurrentRequests true or concurrentLimit above 1, the adapter has
\* concurrentRequests = false and concurrentLimit = 1, and the background
\* update that follows runs the sequential loop
C22_UnsafeConfigIsClamped ==
  (sched.pc # "load" /\ UnsafeConfig(sched.platformConfig))
    => /\ ~sched.concurrentRequests
       /\ sched.concurrentLimit = 1
       /\ sched.pc \in {"idle", "check", "attempt", "fetched", "finish",
                        "done"}

\* a configuration with concurrentRequests true and the largest limit was
\* loaded and the update has run through its sequential loop
C22_Witness ==
  /\ sched.pc = "done"
  /\ sched.platformConfig.kind = "config"
  /\ sched.platformConfig.concurrentRequests
  /\ sched.platformConfig.concurrentLimit = MaxConcurrent
  /\ \A k \in 1..Len(sched.users) : sched.requests[k] > 0

----------------------------------------------------------------------------
(* cleanupStaleCache as a filter of the pools *)

\* the items of a pool that are not older than the 30-day cutoff at time t
NotOlderThanCutoff(pool, t) ==
  SelectSeq(pool, LAMBDA v : v.publishedAt >= t - staleThreshold)

\* C23: cleanupStaleCache leaves in every live pool exactly the items that
\* are not older than now minus 30 days (an item published exactly at the
\* cutoff stays), in their order
C23_CleanupRemovesExactlyStale ==
  [][lastOp'.op = "cleanup" =>
       \A c \in PoolCreators :
         (cache[c].present /\ ~Expired(cache[c], now))
           => /\ cache'[c].present
              /\ cache'[c].data = NotOlderThanCutoff(cache[c].data, now)]_vars

----------------------------------------------------------------------------
(* Shuffles over merged pools; sel keeps what the last shuffle started    *)
(* from and what its step 1 left.  handleRefreshClick is cut at its await *)
(* of replaceContent: pc = "render" while the selection is committed and  *)
(* not yet handed to the renderer                                         *)

ShuffleInit ==
  /\ InitAdapter
  /\ sched = SchedIdle
  /\ sel = [pc |-> "idle", followOk |-> TRUE, pre |-> <<>>,
            r |-> [mem |-> <<>>, shown |-> <<>>, reset |-> FALSE],
            newVideos |-> {}]

\* a click on the hijacked roll button: handleRefreshClick up to
\* replaceContent
ShuffleClick ==
  /\ refreshButtonHandler
  /\ sel.pc = "idle"
  /\ \E followOk \in BOOLEAN :
       /\ HandleRefreshClick(followOk)
       /\ sel' = [pc |-> IF lastOp'.path = "replaced"
                         THEN "render" ELSE "idle",
                  followOk |-> followOk,
                  pre |-> displayedVideoIds,
                  r |-> Replenish(currentCachedVideos, displayedVideoIds,
                                  cache, now, followOk),
                  newVideos |-> lastOp'.selected]
  /\ UNCHANGED <<now, rateLimitHitCount, lastRateLimitTime, sched,
                 refreshButtonHandler>>

\* the ids replaceContent puts on the page: those of its argument, the
\* local list newVideos of handleRefreshClick
Rendered_IfStillCached(newVideos, st, t) ==
  {id \in newVideos :
     \E c \in Creators : id \in IdsOf(GetCache(st, c, t).data)}

Rendered(newVideos, st, t) == newVideos

\* replaceContent(newVideos) and the rest of handleRefreshClick
ShuffleRender ==
  /\ sel.pc = "render"
  /\ sel' = [sel EXCEPT !.pc = "idle"]
  /\ lastOp' = [Idle EXCEPT !.op = "render",
                            !.selected = Rendered(sel.newVideos, cache, now)]
  /\ UNCHANGED <<now, cache, currentCachedVideos, displayedVideoIds,
                 rateLimitHitCount, lastRateLimitTime, sched,
                 refreshButtonHandler>>

ShuffleNext == SelMerge \/ SelReinit \/ ShuffleClick \/ ShuffleRender

SpecShuffle == ShuffleInit /\ [][ShuffleNext]_vars

\* C24: a shuffle that has no candidate after re-collection and reset
\* evaluation ends with a message, hands nothing to replaceContent and adds
\* no id to the history
C24_EmptyShuffleIsQuiet ==
  (lastOp.op = "shuffle" /\ Len(sel.r.mem) = 0)
    => /\ lastOp.path = "message"
       /\ lastOp.selected = {}
       /\ Range(displayedVideoIds) \subseteq Range(sel.pre)

\* a shuffle found every cached item in the history and ended with nothing
\* to show
C24_Witness ==
  /\ lastOp.op = "shuffle"
  /\ sel.followOk
  /\ Len(sel.r.mem) = 0
  /\ KnownIds # {}
  /\ displayedVideoIds = sel.pre

----------------------------------------------------------------------------
(* ContentEngine: start, refreshContent and stop, with the refresh cycle of *)
(* the content script behind the getRandomContent message                  *)

EngineInit ==
  /\ InitAdapter
  /\ sel = SelIdle
  /\ sched = [isRunning |-> FALSE, refreshTimer |-> FALSE, call |-> "none",
              content |-> "none", raised |-> "none"]

\* the try block of refreshContent: the getRandomContent message is answered
\* by a refresh cycle (scriptOk) or fails, and getContentDirectly throws;
\* an empty answer is thrown as an error.  call names the caller
RefreshContent(call, running) ==
  \E scriptOk \in BOOLEAN :
    IF scriptOk
    THEN /\ GetRandomContent
         /\ sched' = IF lastOp'.selected = {}
                     THEN [isRunning |-> running /\ call # "start",
                           refreshTimer |-> sched.refreshTimer,
                           call |-> call, content |-> "empty",
                           raised |-> "noContent"]
                     ELSE [isRunning |-> running,
                           refreshTimer |-> sched.refreshTimer \/ call = "start",
                           call |-> call, content |-> "items",
                           raised |-> "none"]
    ELSE /\ sched' = [isRunning |-> running /\ call # "start",
                      refreshTimer |-> sched.refreshTimer,
                      call |-> call, content |-> "none",
                      raised |-> "direct"]
         /\ lastOp' = [Idle EXCEPT !.op = "refreshFailed"]
         /\ UNCHANGED <<cache, currentCachedVideos, displayedVideoIds,
                        refreshButtonHandler>>

\* ContentEngine.start: the platform check, isRunning = true, refreshContent,
\* the timer; the catch block sets isRunning = false and rethrows
EngineStart ==
  /\ ~sched.isRunning
  /\ \E isPlatformEnabled \in BOOLEAN :
       IF isPlatformEnabled
       THEN RefreshContent("start", TRUE)
       ELSE /\ sched' = [sched EXCEPT !.call = "start", !.content = "none",
                                      !.raised = "notEnabled"]
            /\ lastOp' = [Idle EXCEPT !.op = "startFailed"]
            /\ UNCHANGED <<cache, currentCachedVideos, displayedVideoIds,
                           refreshButtonHandler>>
  /\ UNCHANGED <<now, rateLimitHitCount, lastRateLimitTime, sel>>

\* ContentEngine.refreshContent of a running engine, from the timer or from
\* a caller
EngineRefresh ==
  /\ sched.isRunning
  /\ RefreshContent("refresh", TRUE)
  /\ UNCHANGED <<now, rateLimitHitCount, lastRateLimitTime, sel>>

\* ContentEngine.stop
EngineStop ==
  /\ sched.isRunning
  /\ sched' = [sched EXCEPT !.isRunning = FALSE, !.refreshTimer = FALSE,
                            !.call = "stop", !.content = "none",
                            !.raised = "none"]
  /\ lastOp' = [Idle EXCEPT !.op = "stop"]
  /\ UNCHANGED <<now, cache, currentCachedVideos, displayedVideoIds,
                 rateLimitHitCount, lastRateLimitTime, sel,
                 refreshButtonHandler>>

\* a fetch of a background update has been stored
EngineMerge ==
  /\ \E c \in SelCreators :
       /\ IncrementalUpdateVideoCache(c, SelBatch(c), TRUE, TRUE)
       /\ lastOp' = [Idle EXCEPT !.op = "merge", !.c = c]
  /\ UNCHANGED <<now, displayedVideoIds, rateLimitHitCount,
                 lastRateLimitTime, sched, sel, refreshButtonHandler>>

EngineNext == EngineStart \/ EngineRefresh \/ EngineStop \/ EngineMerge

SpecEngine == EngineInit /\ [][EngineNext]_vars

\* C25: when the refresh cycle behind start or refreshContent yields no
\* item, the call raises no error and the engine is running afterwards
C25_EmptyRefreshKeepsEngineRunning ==
  (sched.call \in {"start", "refresh"} /\ sched.content = "empty")
    => sched.raised = "none" /\ sched.isRunning

----------------------------------------------------------------------------
(* The display history over refresh cycles, shuffles, background merges    *)
(* and cache cleanups                                                      *)

\* cleanupStaleCache
HistCleanup ==
  /\ CleanupStaleCache
  /\ UNCHANGED <<now, displayedVideoIds, rateLimitHitCount,
                 lastRateLimitTime, sched, sel, refreshButtonHandler>>

HistNext ==
  SelMerge \/ SelReinit \/ SelRefresh \/ SelShuffle \/ HistCleanup

SpecHist == SelInit /\ [][HistNext]_vars

\* the history after a step starts with the k most recently added ids of
\* the history before it, and every id behind them was selected in the step
KeepsMostRecent(k) ==
  LET kept == SubSeq(displayedVideoIds, Len(displayedVideoIds) - k + 1,
                     Len(displayedVideoIds))
  IN /\ Len(displayedVideoIds') >= k
     /\ SubSeq(displayedVideoIds', 1, k) = kept
     /\ \A i \in (k + 1)..Len(displayedVideoIds') :
          displayedVideoIds'[i] \in lastOp'.selected

\* C26: a step of a refresh cycle, a shuffle, a merge or a cleanup keeps
\* every id of the history, unless it is a shuffle that resets the history,
\* and then the most recently added ids stay
C26_HistoryOnlyGrows ==
  [][\/ Range(displayedVideoIds) \subseteq Range(displayedVideoIds')
     \/ /\ lastOp'.op = "shuffle"
        /\ lastOp'.reset
        /\ \E k \in 1..Len(displayedVideoIds) : KeepsMostRecent(k)]_vars

\* a shuffle has reset a history that held every known id and has kept the
\* historyKeep most recent of them
C26_Witness ==
  /\ lastOp.op = "shuffle"
  /\ lastOp.reset
  /\ Cardinality(KnownIds) > historyKeep
  /\ Cardinality(lastOp.hist) = historyKeep

----------------------------------------------------------------------------
(* The consecutive-rate-limit counter of a sequential run *)

\* the count after the fetches of creators 1..k: a rate-limited fetch adds
\* one, a stored fetch sets it to zero, an otherwise failed fetch leaves it
RECURSIVE ConsecutiveRateLimits(_)
ConsecutiveRateLimits(k) ==
  IF k = 0 THEN 0
  ELSE CASE sched.results[k] = "ok" -> 0
         [] sched.results[k] = "rateLimited" -> ConsecutiveRateLimits(k - 1) + 1
         [] OTHER -> ConsecutiveRateLimits(k - 1)

\* C27: between two creators of a sequential run rateLimitHitCount is the
\* number of rate-limited fetches since the start of the run or the last
\* stored fetch
C27_CounterCountsRateLimits ==
  sched.pc = "check" => rateLimitHitCount = ConsecutiveRateLimits(sched.i - 1)

----------------------------------------------------------------------------
(* The commit of a shuffle *)

\* C28: right after a shuffle has committed a selection every selected id
\* is in the history, none is left in the in-memory pool, and the selection
\* has not been handed to replaceContent yet; what replaceContent is handed
\* is in the history
C28_CommitBeforeRender ==
  /\ (lastOp.op = "shuffle" /\ lastOp.selected # {})
       => /\ lastOp.selected \subseteq Range(displayedVideoIds)
          /\ lastOp.selected \cap IdsOf(currentCachedVideos) = {}
          /\ sel.pc = "render"
  /\ lastOp.op = "render"
       => /\ lastOp.selected # {}
          /\ lastOp.selected \subseteq Range(displayedVideoIds)

\* a shuffle has committed a selection that leaves other items in the pool
C28_Witness ==
  /\ lastOp.op = "shuffle"
  /\ lastOp.selected # {}
  /\ currentCachedVideos # <<>>
  /\ sel.pc = "render"

----------------------------------------------------------------------------
(* The history reset *)

\* shown holds the (at most) historyKeep most recently added ids of pre, in
\* the order of pre
MostRecentOf(pre, shown) ==
  /\ Len(shown) = Min(historyKeep, Len(pre))
  /\ \A i \in 1..Len(shown) : shown[i] = pre[Len(pre) - Len(shown) + i]

\* the cached items whose ids are not in shown
CachedNotIn(shown) ==
  {v \in UNION {Range(GetCache(cache, c, now).data) : c \in Creators} :
     v.id \notin Range(shown)}

\* C29: a history reset leaves the historyKeep most recently added ids of
\* the history in their order, and the in-memory pool it re-collects holds
\* exactly the cached items whose ids are not among them
C29_ResetKeepsMostRecent ==
  (lastOp.op = "shuffle" /\ sel.r.reset)
    => /\ MostRecentOf(sel.pre, sel.r.shown)
       /\ Range(sel.r.mem) = CachedNotIn(sel.r.shown)

----------------------------------------------------------------------------
(* Follow-list paging against follow lists of every length *)

\* the longest follow list of the upstream: more than maxUpSers and not a
\* whole number of pages
MaxUpstream == maxUpSers + pageSize + 1

CeilDiv(a, b) == (a + b - 1) \div b

PagingInit ==
  /\ InitAdapter
  /\ sel = SelIdle
  /\ \E n \in 0..MaxUpstream :
       sched = FollowIdle([i \in 1..n |-> i], 0)

\* getFollowedUsers hands its list or its exception to its caller
PagingDone ==
  /\ sched.pc \in {"returned", "threw"}
  /\ sched' = [sched EXCEPT !.pc = "idle"]
  /\ lastOp' = [Idle EXCEPT !.op = "followDone"]
  /\ UNCHANGED <<now, cache, currentCachedVideos, displayedVideoIds,
                 rateLimitHitCount, lastRateLimitTime, sel,
                 refreshButtonHandler>>

PagingNext == CycleStart \/ FollowPage \/ PagingDone \/ FollowTick

SpecPaging == PagingInit /\ [][PagingNext]_vars

\* C30: on a cache miss the paging goes on only after full pages and below
\* maxUpSers creators, so one call issues at most ceil(maxUpSers / pageSize)
\* page requests, and the list it returns has at most maxUpSers creators
C30_PagingTerminates ==
  /\ sched.requests <= CeilDiv(maxUpSers, pageSize)
  /\ sched.pc = "paging"
       => /\ Len(sched.allUps) = sched.requests * pageSize
          /\ Len(sched.allUps) < maxUpSers
  /\ (sched.pc = "returned" /\ ~sched.hadEntry)
       => /\ Len(sched.result) <= maxUpSers
          /\ \/ Len(sched.result) >= maxUpSers
             \/ Len(sched.result) = Len(sched.upstream)

C30_Witness ==
  /\ sched.pc = "returned"
  /\ ~sched.hadEntry
  /\ Len(sched.upstream) > maxUpSers
  /\ sched.requests = CeilDiv(maxUpSers, pageSize)
  /\ Len(sched.result) = maxUpSers

----------------------------------------------------------------------------
(* getFollowedUsers: failures, the followings entry and the page delay *)

\* C31: a failed page request makes getFollowedUsers throw with no
\* followings entry written, and no list is persisted while the paging goes
\* on; a call that returns after paging has written the whole accumulated
\* list once, with a lifetime of 24 hours
C31_NoPartialFollowList ==
  /\ (lastOp.op = "followPage" /\ lastOp.path # "ok")
       => /\ sched.pc = "threw"
          /\ sched.cacheWrites = 0
          /\ ~cache[FollowingsKey].present
  /\ sched.pc = "paging"
       => /\ sched.cacheWrites = 0
          /\ ~cache[FollowingsKey].present
  /\ (lastOp.op = "followPage" /\ sched.pc = "returned")
       => /\ sched.cacheWrites = 1
          /\ cache[FollowingsKey] =
               [present |-> TRUE, data |-> sched.allUps, createdAt |-> now,
                expiresAt |-> now + Ms(24 * 60 * 60 * 1000)]
          /\ sched.result = sched.allUps
          /\ sched.allUps =
               SubSeq(sched.upstream, 1, Min(Len(sched.upstream), maxUpSers))

\* a later page fails after a part of the list has been accumulated
C31_Witness ==
  /\ lastOp.op = "followPage"
  /\ lastOp.path = "apiError"
  /\ sched.pc = "threw"
  /\ sched.requests = 2
  /\ Len(sched.allUps) = pageSize

\* C32: a page request that follows another one of the same call is issued
\* no earlier than requestDelay after it, and the page that ends the paging
\* is followed by no delay
C32_PagesAreSpaced ==
  [][(sched.pc = "paging" /\ sched'.requests = sched.requests + 1)
       => /\ sched.requests > 0 => now >= sched.lastRequestAt + requestDelay
          /\ sched'.pc # "paging" => now' = now]_vars

C32_Witness ==
  /\ sched.pc = "returned"
  /\ sched.requests = 2
  /\ Len(sched.result) = maxUpSers
  /\ now = sched.lastRequestAt

----------------------------------------------------------------------------
(* Overlapping writers of one creator's pool: the awaits of               *)
(* incrementalUpdateVideoCache and of cleanupStaleCache are steps         *)

\* the creator whose pool is written
RaceCreator == 1

\* the calls of incrementalUpdateVideoCache that can overlap (two refresh
\* cycles updating the same creator)
Mergers == {1, 2}

NoCall == [pc |-> "idle", newVideos |-> <<>>,
           existingCache |-> [hit |-> FALSE, data |-> <<>>]]

RaceInit ==
  /\ InitAdapter
  /\ sel = SelIdle
  /\ sched = [pc |-> "race", m |-> [p \in Mergers |-> NoCall], cl |-> NoCall]

\* incrementalUpdateVideoCache up to the await of getCache
RaceMergeRead ==
  /\ \E p \in Mergers : \E newVideos \in PoolBatches(RaceCreator) :
       /\ sched.m[p].pc = "idle"
       /\ sched' = [sched EXCEPT
                      !.m[p] = [pc |-> "read", newVideos |-> newVideos,
                                existingCache |->
                                  GetCache(cache, RaceCreator, now)]]
       /\ cache' = GetCacheStore(cache, RaceCreator, now)
       /\ lastOp' = [Idle EXCEPT !.op = "mergeRead", !.c = p]
  /\ UNCHANGED <<now, currentCachedVideos, displayedVideoIds,
                 rateLimitHitCount, lastRateLimitTime, sel,
                 refreshButtonHandler>>

\* incrementalUpdateVideoCache from the merge to its end: setCache of the
\* merged pool and refreshMemoryCache
RaceMergeWrite ==
  /\ \E p \in Mergers :
       LET call == sched.m[p]
           merged == MergedVideos(call.existingCache, call.newVideos)
       IN /\ call.pc = "read"
          /\ cache' = SetCache(cache, RaceCreator, merged, CONTENT_TTL, now)
          /\ currentCachedVideos' =
               RefreshMemoryCache(currentCachedVideos, displayedVideoIds,
                                  RaceCreator, merged)
          /\ sched' = [sched EXCEPT !.m[p].pc = "done"]
          /\ lastOp' = [Idle EXCEPT !.op = "mergeWrite", !.c = p]
  /\ UNCHANGED <<now, displayedVideoIds, rateLimitHitCount,
                 lastRateLimitTime, sel, refreshButtonHandler>>

\* the turn of cleanupStaleCache's loop for the creator, up to the await of
\* getCache
RaceCleanupRead ==
  /\ sched.cl.pc = "idle"
  /\ sched' = [sched EXCEPT
                 !.cl = [pc |-> "read", newVideos |-> <<>>,
                         existingCache |->
                           GetCache(cache, RaceCreator, now)]]
  /\ cache' = GetCacheStore(cache, RaceCreator, now)
  /\ lastOp' = [Idle EXCEPT !.op = "cleanupRead"]
  /\ UNCHANGED <<now, currentCachedVideos, displayedVideoIds,
                 rateLimitHitCount, lastRateLimitTime, sel,
                 refreshButtonHandler>>

\* the rest of the turn: the filter, setCache of the fresh items if one was
\* removed, and the re-collection that ends cleanupStaleCache
RaceCleanupWrite ==
  /\ sched.cl.pc = "read"
  /\ LET cached == sched.cl.existingCache
         fresh == FreshVideos(cached.data, now)
         removed == cached.hit /\ Len(fresh) < Len(cached.data)
     IN /\ cache' = IF removed
                    THEN SetCache(cache, RaceCreator, fresh, CONTENT_TTL, now)
                    ELSE cache
        /\ currentCachedVideos' =
             IF removed
             THEN CollectAllCachedVideos(cache', displayedVideoIds, now)
             ELSE currentCachedVideos
  /\ sched' = [sched EXCEPT !.cl.pc = "done"]
  /\ lastOp' = [Idle EXCEPT !.op = "cleanupWrite"]
  /\ UNCHANGED <<now, displayedVideoIds, rateLimitHitCount,
                 lastRateLimitTime, sel, refreshButtonHandler>>

RaceNext ==
  RaceMergeRead \/ RaceMergeWrite \/ RaceCleanupRead \/ RaceCleanupWrite

SpecRace == RaceInit /\ [][RaceNext]_vars

\* the items of the batches whose merges have finished, older than the
\* staleness window excluded
FetchedFresh ==
  UNION {Range(FreshVideos(sched.m[p].newVideos, now)) :
           p \in {q \in Mergers : sched.m[q].pc = "done"}}

\* C33: when no writer of the creator's pool is between its read and its
\* write, the pool holds every non-stale item of every batch whose merge
\* has finished
C33_NoLostUpdate ==
  ((\A p \in Mergers : sched.m[p].pc # "read") /\ sched.cl.pc # "read")
    => {v.id : v \in FetchedFresh}
         \subseteq IdsOf(GetCache(cache, RaceCreator, now).data)

----------------------------------------------------------------------------
(* The batches of the concurrent mode *)

\* the number of the batch the creator at position k of the queue is in
BatchIndex(k) == (k - 1) \div sched.concurrentLimit

\* the fetches that have started and not settled
FetchesInFlight == {k \in 1..Len(sched.users) : sched.status[k] = "running"}

\* C34: in the concurrent mode the fetches in flight are at most
\* concurrentLimit creators of one batch of the queue, a fetch has started
\* only if every fetch of the earlier batches has settled, and a batch is
\* left only when each of its fetches has run to its own end, failed
\* siblings or not
C34_BatchesAreOrdered ==
  sched.concurrentRequests =>
    /\ Cardinality(FetchesInFlight) <= sched.concurrentLimit
    /\ \A j, k \in FetchesInFlight : BatchIndex(j) = BatchIndex(k)
    /\ \A j, k \in 1..Len(sched.users) :
         (BatchIndex(j) < BatchIndex(k) /\ sched.status[k] # "queued")
           => /\ sched.status[j] = "settled"
              /\ sched.requests[k] > 0
                   => sched.firstRequestAt[k] >= sched.endedAt[j]
    /\ \A k \in 1..Len(sched.users) :
         sched.status[k] = "settled" <=> sched.results[k] # "none"
    /\ sched.pc \in {"finish", "done"}
         => \A k \in 1..Len(sched.users) :
              sched.status[k] = "settled" /\ sched.requests[k] >= 1

\* the second batch is in flight after a batch of two in which the first
\* fetch failed and the second was stored
C34_Witness ==
  /\ sched.concurrentRequests
  /\ sched.concurrentLimit = 2
  /\ sched.pc = "wait"
  /\ sched.results[1] \in {"failed", "rateLimited"}
  /\ sched.results[2] = "ok"
  /\ sched.status[3] = "running"

----------------------------------------------------------------------------
(* The background update of a page that has shown items already *)

\* the display histories the update can start with
ShownBefore == {<<>>, <<12>>, <<1, 13>>}

DoneInit ==
  /\ now = T0
  /\ cache = EmptyCache
  /\ currentCachedVideos = <<>>
  /\ displayedVideoIds \in ShownBefore
  /\ rateLimitHitCount = 0
  /\ lastRateLimitTime = 0
  /\ refreshButtonHandler = FALSE
  /\ lastOp = Idle
  /\ sel = SelIdle
  /\ sched = [pc |-> "idle", users |-> SeqUsers, i |-> 0, attempt |-> 0,
              results |-> [k \in 1..Len(SeqUsers) |-> "none"],
              endedAt |-> [k \in 1..Len(SeqUsers) |-> 0],
              requests |-> [k \in 1..Len(SeqUsers) |-> 0],
              firstRequestAt |-> [k \in 1..Len(SeqUsers) |-> 0],
              brokeAt |-> 0]

SpecDone == DoneInit /\ [][SeqNext]_vars

\* the ids of the items the run has merged into the pools of its creators
MergedInRun ==
  UNION {IdsOf(SeqBatch(sched.users[k])) :
           k \in {j \in 1..Len(sched.users) : sched.results[j] = "ok"}}

----------------------------------------------------------------------------
(* cleanupStaleCache while a selection waits for the Renderer *)

EvictNext ==
  SelMerge \/ SelReinit \/ ShuffleClick \/ ShuffleRender \/ HistCleanup

SpecEvict == ShuffleInit /\ [][EvictNext]_vars

\* the ids the last shuffle has committed: the tail of the history
Committed ==
  {displayedVideoIds[i] :
     i \in (Len(displayedVideoIds) - Cardinality(sel.newVideos) + 1)
             ..Len(displayedVideoIds)}

\* the persisted pools hold none of the selected ids that are stale
StaleSelectedEvicted ==
  \E id \in sel.newVideos :
    /\ PubOf(id) <= now - staleThreshold
    /\ \A c \in Creators : id \notin IdsOf(GetCache(cache, c, now).data)

\* C36: a selection that waits for the Renderer stays as it was selected
\* whatever cleanupStaleCache removes in between, and the Renderer receives
\* exactly the ids the shuffle committed
C36_EvictionSparesSelection ==
  /\ sel.pc = "render" => (sel.newVideos # {} /\ sel.newVideos = Committed)
  /\ lastOp.op = "render" => lastOp.selected = Committed

\* a selected stale item was evicted from its pool before the Renderer got
\* the selection
C36_Witness ==
  /\ lastOp.op = "render"
  /\ lastOp.selected = sel.newVideos
  /\ StaleSelectedEvicted

----------------------------------------------------------------------------
(* A refresh cycle whose awaits are steps, next to shuffle clicks *)

\* what phase 1 and 2 of getRandomContent can show: the ids handed to
\* replaceContent and the history once they are recorded
CycleShows ==
  LET lists == UNION {CachedVideos([i \in 1..Len(FollowedUsers) |->
                                      FollowedUsers[order[i]]], cache, now) :
                        order \in Permutations(1..Len(FollowedUsers))}
  IN {[selected |-> IdsOf(cachedVideos),
       shown |-> SetAddAll(displayedVideoIds, IdSeq(cachedVideos))] :
        cachedVideos \in lists}

\* getRandomContent up to its await of initializeRefreshButton: the cached
\* picks are shown and recorded in the history
WindowShow ==
  /\ sched.pc = "idle"
  /\ \E show \in CycleShows :
       /\ displayedVideoIds' = show.shown
       /\ sched' = [pc |-> IF show.selected # {} THEN "shown" ELSE "idle"]
       /\ lastOp' = [Idle EXCEPT !.op = "refresh",
                                 !.selected = show.selected,
                                 !.hist = Range(displayedVideoIds)]
  /\ cache' = ReadAllStore(cache, now)
  /\ UNCHANGED <<now, currentCachedVideos, rateLimitHitCount,
                 lastRateLimitTime, sel, refreshButtonHandler>>

\* initializeRefreshButton at the end of phase 2
WindowCollect ==
  /\ sched.pc = "shown"
  /\ \E buttonFound \in BOOLEAN :
       InitializeRefreshButton(displayedVideoIds, TRUE, buttonFound)
  /\ sched' = SchedIdle
  /\ lastOp' = [Idle EXCEPT !.op = "reinit"]
  /\ UNCHANGED <<now, displayedVideoIds, rateLimitHitCount,
                 lastRateLimitTime, sel>>

WindowNext ==
  \/ SelMerge \/ SelReinit \/ ShuffleClick \/ ShuffleRender
  \/ WindowShow \/ WindowCollect

SpecWindow == ShuffleInit /\ [][WindowNext]_vars

\* C37: when a shuffle picks items, the in-memory pool it picks from holds
\* no id of the display history
C37_PoolDisjointFromHistory ==
  (lastOp.op = "shuffle" /\ lastOp.selected # {})
    => IdsOf(sel.r.mem) \cap Range(sel.r.shown) = {}

----------------------------------------------------------------------------
(* Overlapping shuffle handlers: the awaits of handleRefreshClick,        *)
(* collectAllCachedVideos and intelligentResetDisplayHistory are steps    *)

\* the click handlers that can be under way at once
Clickers == {1, 2}

\* availableVideos of collectAllCachedVideos
Available_Unfiltered(allVideos, shown) == allVideos

Available(allVideos, shown) ==
  SelectSeq(allVideos, LAMBDA v : v.id \notin Range(shown))

NoClick ==
  [pc |-> "idle", all |-> <<>>, total |-> 0, picked |-> {},
   recollected |-> FALSE]

ClicksInit ==
  /\ InitAdapter
  /\ sched = SchedIdle
  /\ sel = [h |-> [i \in Clickers |-> NoClick]]

\* a reset has taken ids out of the history: they may be selected again
Forget(h, removed) ==
  [i \in Clickers |-> [h[i] EXCEPT !.picked = @ \ removed]]

\* handleRefreshClick up to its first await; the second handler is the one
\* of a click that arrives while the first is under way
ClickStart ==
  /\ refreshButtonHandler
  /\ \E i \in Clickers :
       /\ sel.h[i].pc = "idle"
       /\ i = 2 => sel.h[1].pc # "idle"
       /\ sel' = [sel EXCEPT
                    !.h[i] = [NoClick EXCEPT
                                !.pc = IF Len(currentCachedVideos)
                                          < totalVideosNeeded
                                       THEN "collect" ELSE "select"]]
       /\ lastOp' = [Idle EXCEPT !.op = "clickStart", !.c = i]
  /\ UNCHANGED <<now, cache, currentCachedVideos, displayedVideoIds,
                 rateLimitHitCount, lastRateLimitTime, sched,
                 refreshButtonHandler>>

\* collectAllCachedVideos up to the end of its loop: getFollowedUsers and
\* the pools are read; if getFollowedUsers throws, the catch block empties
\* the in-memory pool
ClickCollectRead ==
  /\ \E i \in Clickers : \E followOk \in BOOLEAN :
       LET first == sel.h[i].pc = "collect"
       IN /\ sel.h[i].pc \in {"collect", "collect2"}
          /\ cache' = CollectStore(cache, now, followOk)
          /\ IF followOk
             THEN /\ sel' = [sel EXCEPT
                               !.h[i].pc = IF first THEN "assign"
                                           ELSE "assign2",
                               !.h[i].all =
                                  SortDesc(CollectMap(<<>>, FollowedUsers,
                                                      cache, now))]
                  /\ currentCachedVideos' = currentCachedVideos
             ELSE /\ sel' = [sel EXCEPT
                               !.h[i].pc = IF first THEN "reset"
                                           ELSE "select"]
                  /\ currentCachedVideos' = <<>>
          /\ lastOp' = [Idle EXCEPT !.op = "clickRead", !.c = i]
  /\ UNCHANGED <<now, displayedVideoIds, rateLimitHitCount,
                 lastRateLimitTime, sched, refreshButtonHandler>>

\* the end of collectAllCachedVideos: the filter against the history and
\* the assignment; then handleRefreshClick goes on
ClickCollectAssign ==
  /\ \E i \in Clickers :
       LET mem == Available(sel.h[i].all, displayedVideoIds)
       IN /\ sel.h[i].pc \in {"assign", "assign2"}
          /\ currentCachedVideos' = mem
          /\ sel' = [sel EXCEPT
                       !.h[i].pc = IF sel.h[i].pc = "assign"
                                      /\ Len(mem) < totalVideosNeeded
                                   THEN "reset" ELSE "select",
                       !.h[i].all = <<>>,
                       !.h[i].recollected = TRUE]
          /\ lastOp' = [Idle EXCEPT !.op = "clickAssign", !.c = i]
  /\ UNCHANGED <<now, cache, displayedVideoIds, rateLimitHitCount,
                 lastRateLimitTime, sched, refreshButtonHandler>>

\* intelligentResetDisplayHistory up to the end of its loop; if
\* getFollowedUsers throws, the catch block keeps the newer half of the
\* history and re-collects
ClickResetRead ==
  /\ \E i \in Clickers : \E followOk \in BOOLEAN :
       LET rest == SubSeq(displayedVideoIds, Len(displayedVideoIds) \div 2 + 1,
                          Len(displayedVideoIds))
       IN /\ sel.h[i].pc = "reset"
          /\ cache' = CollectStore(cache, now, followOk)
          /\ IF followOk
             THEN /\ sel' = [sel EXCEPT
                               !.h[i].pc = "decide",
                               !.h[i].total =
                                  TotalCachedVideos(cache, FollowedUsers, now)]
                  /\ displayedVideoIds' = displayedVideoIds
             ELSE /\ sel' = [h |-> [Forget(sel.h, Range(displayedVideoIds)
                                                    \ Range(rest))
                                      EXCEPT ![i].pc = "collect2"]]
                  /\ displayedVideoIds' = rest
          /\ lastOp' = [Idle EXCEPT !.op = "clickResetRead", !.c = i]
  /\ UNCHANGED <<now, currentCachedVideos, rateLimitHitCount,
                 lastRateLimitTime, sched, refreshButtonHandler>>

\* shouldReset and the truncation of the history
ClickResetDecide ==
  /\ \E i \in Clickers :
       LET kept == KeepRecent(displayedVideoIds)
       IN /\ sel.h[i].pc = "decide"
          /\ IF ShouldReset(currentCachedVideos, displayedVideoIds,
                            sel.h[i].total)
             THEN /\ displayedVideoIds' = kept
                  /\ sel' = [h |-> [Forget(sel.h, Range(displayedVideoIds)
                                                    \ Range(kept))
                                      EXCEPT ![i].pc = "collect2",
                                             ![i].total = 0]]
             ELSE /\ displayedVideoIds' = displayedVideoIds
                  /\ sel' = [sel EXCEPT !.h[i].pc = "select",
                                        !.h[i].total = 0]
          /\ lastOp' = [Idle EXCEPT !.op = "clickDecide", !.c = i]
  /\ UNCHANGED <<now, cache, currentCachedVideos, rateLimitHitCount,
                 lastRateLimitTime, sched, refreshButtonHandler>>

\* steps 2 to 4 of handleRefreshClick: the empty checks, the selection and
\* the commit, up to the await of replaceContent
ClickSelect ==
  /\ \E i \in Clickers :
       /\ sel.h[i].pc = "select"
       /\ IF Len(currentCachedVideos) = 0
          THEN /\ sel' = [sel EXCEPT !.h[i].pc = "idle"]
               /\ UNCHANGED <<currentCachedVideos, displayedVideoIds>>
               /\ lastOp' = [Idle EXCEPT !.op = "clickSelect", !.c = i,
                                         !.path = "message"]
          ELSE \E newVideos \in SelectVideosSmartly(currentCachedVideos,
                                                    totalVideosNeeded) :
               /\ displayedVideoIds' =
                    SetAddAll(displayedVideoIds, IdSeq(newVideos))
               /\ currentCachedVideos' =
                    RemoveUsed(currentCachedVideos, IdsOf(newVideos))
               /\ sel' = [sel EXCEPT
                            !.h[i].pc = IF Len(newVideos) = 0
                                        THEN "idle" ELSE "render",
                            !.h[i].picked = IdsOf(newVideos)]
               /\ lastOp' = [Idle EXCEPT
                               !.op = "clickSelect", !.c = i,
                               !.path = ShuffleEnds(currentCachedVideos,
                                                    newVideos)]
  /\ UNCHANGED <<now, cache, rateLimitHitCount, lastRateLimitTime, sched,
                 refreshButtonHandler>>

\* replaceContent and the rest of handleRefreshClick.  The selection of a
\* handler that ends while no other handler is under way is no longer
\* compared with anything
ClickRender ==
  /\ \E i \in Clickers :
       /\ sel.h[i].pc = "render"
       /\ sel' = [sel EXCEPT
                    !.h[i] = IF \A j \in Clickers \ {i} : sel.h[j].pc = "idle"
                             THEN NoClick
                             ELSE [@ EXCEPT !.pc = "idle"]]
       /\ lastOp' = [Idle EXCEPT !.op = "render", !.c = i]
  /\ UNCHANGED <<now, cache, currentCachedVideos, displayedVideoIds,
                 rateLimitHitCount, lastRateLimitTime, sched,
                 refreshButtonHandler>>

\* the creators whose pools the background update stores meanwhile
ClickCreators == {1}

\* a fetch of the background update has stored a creator's pool
ClicksMerge ==
  /\ \E c \in ClickCreators :
       /\ IncrementalUpdateVideoCache(c, SelBatch(c), TRUE, FALSE)
       /\ lastOp' = [Idle EXCEPT !.op = "merge", !.c = c]
  /\ UNCHANGED <<now, displayedVideoIds, rateLimitHitCount,
                 lastRateLimitTime, sched, sel, refreshButtonHandler>>

ClicksNext ==
  \/ ClicksMerge \/ SelReinit
  \/ ClickStart \/ ClickCollectRead \/ ClickCollectAssign
  \/ ClickResetRead \/ ClickResetDecide \/ ClickSelect \/ ClickRender

SpecClicks == ClicksInit /\ [][ClicksNext]_vars

\* C38: the selections of two shuffle handlers share no id, unless a
\* history reset has removed the id from the history since it was selected
C38_OverlappingShufflesDiffer ==
  \A i, j \in Clickers :
    i # j => sel.h[i].picked \cap sel.h[j].picked = {}

\* both handlers have selected and wait for the Renderer, the second one
\* after a re-collection that the first one's commit fell into
C38_Witness ==
  /\ \A i \in Clickers : sel.h[i].pc = "render" /\ sel.h[i].picked # {}
  /\ lastOp.op = "clickSelect"
  /\ \E i \in Clickers : lastOp.c = i /\ sel.h[i].recollected

----------------------------------------------------------------------------
(* ContentEngine: the refresh timer when start, stop and restart overlap;  *)
(* the awaits of start are steps                                           *)

\* the calls of start that can be under way at once
Starters == 1..3

\* the number of setInterval calls of one run
MaxTimers == 3

\* refreshTimer = 0 stands for null; live holds the ids of the intervals
\* that are set and not cleared
TimerInit ==
  /\ InitAdapter
  /\ sel = SelIdle
  /\ sched = [isRunning |-> FALSE, refreshTimer |-> 0, live |-> {},
              made |-> 0, pc |-> [s \in Starters |-> "idle"]]

\* start up to its first await: the isRunning guard, then getConfig
StartEnter ==
  /\ \E s \in Starters :
       /\ sched.pc[s] = "idle"
       /\ sched.made < MaxTimers
       /\ sched' = IF sched.isRunning THEN sched
                   ELSE [sched EXCEPT !.pc[s] = "config"]
       /\ lastOp' = [Idle EXCEPT !.op = "startEnter", !.c = s,
                                 !.path = IF sched.isRunning
                                          THEN "running" ELSE "entered"]
  /\ UNCHANGED <<now, cache, currentCachedVideos, displayedVideoIds,
                 rateLimitHitCount, lastRateLimitTime, sel,
                 refreshButtonHandler>>

\* start after getConfig and isPlatformEnabled: isRunning = true and the
\* call of refreshContent up to its first await, or the catch block
StartRun ==
  /\ \E s \in Starters : \E isPlatformEnabled \in BOOLEAN :
       /\ sched.pc[s] = "config"
       /\ sched' = IF isPlatformEnabled
                   THEN [sched EXCEPT !.isRunning = TRUE,
                                      !.pc[s] = "refresh"]
                   ELSE [sched EXCEPT !.isRunning = FALSE, !.pc[s] = "idle"]
       /\ lastOp' = [Idle EXCEPT !.op = "startRun", !.c = s]
  /\ UNCHANGED <<now, cache, currentCachedVideos, displayedVideoIds,
                 rateLimitHitCount, lastRateLimitTime, sel,
                 refreshButtonHandler>>

\* setupRefreshTimer: the interval of the field is cleared, a new one is set
SetupRefreshTimer(e) ==
  [e EXCEPT !.refreshTimer = e.made + 1,
            !.live = (@ \ {e.refreshTimer}) \cup {e.made + 1},
            !.made = @ + 1]

\* the first refreshContent of start has settled: setupRefreshTimer, or
\* the catch block
StartRefreshed ==
  /\ \E s \in Starters : \E refreshed \in BOOLEAN :
       /\ sched.pc[s] = "refresh"
       /\ sched' = IF refreshed
                   THEN [SetupRefreshTimer(sched) EXCEPT !.pc[s] = "idle"]
                   ELSE [sched EXCEPT !.isRunning = FALSE, !.pc[s] = "idle"]
       /\ lastOp' = [Idle EXCEPT !.op = "startRefreshed", !.c = s]
  /\ UNCHANGED <<now, cache, currentCachedVideos, displayedVideoIds,
                 rateLimitHitCount, lastRateLimitTime, sel,
                 refreshButtonHandler>>

\* the body of stop behind its guard
Stopped(e) ==
  [e EXCEPT !.isRunning = FALSE, !.refreshTimer = 0,
            !.live = @ \ {e.refreshTimer}]

\* ContentEngine.stop
TimerStop ==
  /\ sched.isRunning
  /\ sched' = Stopped(sched)
  /\ lastOp' = [Idle EXCEPT !.op = "stop"]
  /\ UNCHANGED <<now, cache, currentCachedVideos, displayedVideoIds,
                 rateLimitHitCount, lastRateLimitTime, sel,
                 refreshButtonHandler>>

\* the configuration listener: restart of a running engine, stop and then
\* start up to its first await
TimerRestart ==
  /\ sched.isRunning
  /\ sched.made < MaxTimers
  /\ \E s \in Starters :
       /\ sched.pc[s] = "idle"
       /\ sched' = [Stopped(sched) EXCEPT !.pc[s] = "config"]
       /\ lastOp' = [Idle EXCEPT !.op = "restart", !.c = s]
  /\ UNCHANGED <<now, cache, currentCachedVideos, displayedVideoIds,
                 rateLimitHitCount, lastRateLimitTime, sel,
                 refreshButtonHandler>>

TimerNext ==
  StartEnter \/ StartRun \/ StartRefreshed \/ TimerStop \/ TimerRestart

SpecTimer == TimerInit /\ [][TimerNext]_vars

\* C39: a refresh timer is set only while the engine is running, and at
\* most one interval is live
C39_TimerOnlyWhileRunning ==
  /\ sched.refreshTimer # 0 => sched.isRunning
  /\ Cardinality(sched.live) <= 1

====
